---- MODULE Spec2Model ----
(***************************************************************************)
(* Cosmos Journeyer: the fly-by mission node (MissionFlyByNode) and the    *)
(* world it is evaluated against.  A node is a record; every method of the *)
(* class is an operator that returns what the method leaves behind, and    *)
(* every action applies one method to the node under observation.          *)
(*                                                                         *)
(* The mission offers of a space station (generateMissionsDom) are a       *)
(* second specification, SpecMissions, over the same galaxy.  The panel    *)
(* that sells a discovery (DiscoveryDetails), with its pending estimates,  *)
(* is a third, SpecDiscovery.  The fuel of a spaceship (Spaceship) is a    *)
(* fourth, SpecShip, and its warp drive and landings a fifth, SpecLanding.  *)
(* The runs of the Pages deployment workflow are a sixth, SpecPages.        *)
(***************************************************************************)
EXTENDS Integers, Sequences, FiniteSets

VARIABLES
    node,       \* the MissionFlyByNode under observation
    last,       \* the last call made on it: operation, inputs, outcome
    clock,      \* what Date.now() returns
    generated,  \* how many star system models have been generated so far
    missions,   \* the last call of generateMissionsDom and what it produced
    described,  \* the last call of describe and what it produced
    currentDiscovery,     \* DiscoveryDetails.currentDiscovery
    sellDiscoveryButton,  \* whether the button is in the panel, and its text
    playerState,          \* the player's balance and discoveries
    pendingSells,         \* sell clicks awaiting their estimate
    pendingLabels,        \* setDiscovery calls awaiting their estimate
    lastSale,             \* what the last completed sell click did
    ship,                 \* the Spaceship under observation
    shipLast,             \* the last call made on it and what it did
    runs                  \* the runs of the Pages workflow, in trigger order

missionsVars == <<clock, generated, missions, described>>

discoveryVars ==
    <<currentDiscovery, sellDiscoveryButton, playerState, pendingSells, pendingLabels,
      lastSale>>

shipVars == <<ship, shipLast>>

pagesVars == <<runs>>

vars ==
    <<node, last, clock, generated, missions, described, currentDiscovery,
      sellDiscoveryButton, playerState, pendingSells, pendingLabels, lastSale,
      ship, shipLast, runs>>

(***************************************************************************)
(* Absent values.  `null` of the source; a record, so that it compares     *)
(* with every other record without a type clash.                           *)
(***************************************************************************)
Null == [null |-> TRUE]

(***************************************************************************)
(* Bounds of the model.                                                    *)
(***************************************************************************)
\* Largest object index an identifier may carry.  Every system of the
\* universe below holds objects 0..3, so index 4 and above name no object.
MaxObjectIndex == 4
\* A distance from any object that is beyond every fly-by threshold.
FarDistance == 150
\* Largest index of a star system inside a sector of the galaxy.
MaxLocalX == 2
\* Latest value of the clock.
MaxClock == 2
\* Most star system models generated in one behaviour.
MaxGenerated == 17
\* Most entries of player.discoveries.uploaded, sales in flight included.
MaxUploaded == 3
\* Most setDiscovery calls awaiting their estimate at once.
MaxPendingLabels == 2
\* Most fuel a tick of the ship requires.
MaxFuelPerTick == 3
\* Largest amount burnFuel and refuel are called with.
MaxAmount == 6
\* Most runs of the Pages workflow.
MaxRuns == 4

(***************************************************************************)
(* const enum FlyByState                                                   *)
(***************************************************************************)
NOT_IN_SYSTEM == 0
TOO_FAR_IN_SYSTEM == 1
CLOSE_ENOUGH == 2

FlyByState == {NOT_IN_SYSTEM, TOO_FAR_IN_SYSTEM, CLOSE_ENOUGH}

(***************************************************************************)
(* Identity model.  StarSystemCoordinates is a value compared field by     *)
(* field; a UniverseObjectId is the coordinates of a system and the index  *)
(* of an object inside it.                                                 *)
(***************************************************************************)
StarSystemCoordinates ==
    {[starSectorX |-> 0, localX |-> 0],
     [starSectorX |-> 0, localX |-> 1],
     [starSectorX |-> 1, localX |-> 0]}

UniverseObjectId ==
    [starSystemCoordinates : StarSystemCoordinates, objectIndex : 0..MaxObjectIndex]

starSystemCoordinatesEquals(a, b) ==
    a.starSectorX = b.starSectorX /\ a.localX = b.localX

universeObjectIdEquals(a, b) ==
    /\ starSystemCoordinatesEquals(a.starSystemCoordinates, b.starSystemCoordinates)
    /\ a.objectIndex = b.objectIndex

(***************************************************************************)
(* The universe: what the deterministic generator yields at each of the    *)
(* coordinates.  A live object exposes model.type, its absolute position   *)
(* and its bounding radius.  Object i of a system sits at <<0, 200*i, 0>>. *)
(* The systems hold one object of each type the switch of updateState      *)
(* names, a second star of another radius, and one object of a type the    *)
(* switch does not name ("OTHER": its default branch).                     *)
(***************************************************************************)
OrbitalObject(type, index, radius) ==
    [model |-> [type |-> type],
     position |-> <<0, 200 * index, 0>>,
     boundingRadius |-> radius]

OrbitalObjectsAt(coordinates) ==
    IF coordinates = [starSectorX |-> 0, localX |-> 0]
    THEN <<OrbitalObject("STAR", 0, 10),
           OrbitalObject("TELLURIC_PLANET", 1, 10),
           OrbitalObject("TELLURIC_SATELLITE", 2, 10),
           OrbitalObject("SPACE_STATION", 3, 10)>>
    ELSE IF coordinates = [starSectorX |-> 0, localX |-> 1]
    THEN <<OrbitalObject("NEUTRON_STAR", 0, 1),
           OrbitalObject("GAS_PLANET", 1, 10),
           OrbitalObject("MANDELBULB", 2, 10),
           OrbitalObject("SPACE_ELEVATOR", 3, 10)>>
    ELSE IF coordinates = [starSectorX |-> 1, localX |-> 0]
    THEN <<OrbitalObject("BLACK_HOLE", 0, 3),
           OrbitalObject("STAR", 1, 20),
           OrbitalObject("JULIA_SET", 2, 10),
           OrbitalObject("OTHER", 3, 10)>>
    ELSE \* the systems farther out: a star and one to three orbital facilities
         <<OrbitalObject("STAR", 0, 10)>>
            \o [i \in 1..(1 + ((coordinates.starSectorX + coordinates.localX) % 3)) |->
                    OrbitalObject(IF i % 2 = 1 THEN "SPACE_STATION" ELSE "SPACE_ELEVATOR",
                                  i, 10)]

\* A loaded star system: its model (coordinates) and its live objects.
StarSystemController(coordinates) ==
    [model |-> [coordinates |-> coordinates],
     orbitalObjects |-> OrbitalObjectsAt(coordinates)]

\* resolve(id, liveSystem): the live object the id's index names, or null.
\* The id's index counts from 0; the sequence is indexed from 1.
getObjectBySystemId(objectId, starSystem) ==
    IF objectId.objectIndex + 1 \in DOMAIN starSystem.orbitalObjects
    THEN starSystem.orbitalObjects[objectId.objectIndex + 1]
    ELSE Null

(***************************************************************************)
(* Vector3.Distance on integer vectors: the integer part of the Euclidean  *)
(* distance.  For an integer threshold t, distance < t holds of the        *)
(* integer part exactly when it holds of the distance itself.              *)
(***************************************************************************)
RECURSIVE ISqrtBetween(_, _, _)
ISqrtBetween(n, lo, hi) ==
    \* the largest r in lo..hi with r * r <= n, given lo * lo <= n
    IF lo >= hi THEN lo
    ELSE LET mid == (lo + hi + 1) \div 2
         IN IF mid * mid <= n THEN ISqrtBetween(n, mid, hi)
                              ELSE ISqrtBetween(n, lo, mid - 1)

DistanceSquared(a, b) ==
    (a[1] - b[1]) * (a[1] - b[1]) + (a[2] - b[2]) * (a[2] - b[2])
        + (a[3] - b[3]) * (a[3] - b[3])

Abs(x) == IF x < 0 THEN -x ELSE x

\* The search ends at |dx| + |dy| + |dz|, which no Euclidean distance exceeds.
Distance(a, b) ==
    ISqrtBetween(DistanceSquared(a, b), 0,
                 Abs(a[1] - b[1]) + Abs(a[2] - b[2]) + Abs(a[3] - b[3]))

(***************************************************************************)
(* MissionContext: the current system and the player's position, built     *)
(* anew for every evaluation.                                              *)
(***************************************************************************)
\* Positions on and around every fly-by threshold of the universe above:
\* beside each object (row 200 * i) at distances about boundingRadius times
\* 1, 3, 10 and 50, as the objects of that row call for, plus two positions
\* off the axes (at distances sqrt(865) and 30 of an object).
PlayerPositions ==
    {<<x, 0, 0>> : x \in {0, 29, 30, 31, 49, 50, 51, FarDistance}}
        \cup {<<x, 200, 0>> : x \in {29, 30, 31, 58, 60, 62}}
        \cup {<<x, 400, 0>> : x \in {29, 30, 31}}
        \cup {<<x, 600, 0>> : x \in {9, 10, 11, 29, 30, 31}}
        \cup {<<17, 24, 0>>, <<18, 424, 0>>}

MissionContext ==
    [currentSystem : {StarSystemController(c) : c \in StarSystemCoordinates},
     playerPosition : PlayerPositions]

(***************************************************************************)
(* class MissionFlyByNode                                                  *)
(***************************************************************************)
\* constructor(objectId)
MissionFlyByNode(objectId) ==
    [kind |-> "MissionFlyByNode",
     state |-> NOT_IN_SYSTEM,
     objectId |-> objectId,
     targetSystemCoordinates |-> objectId.starSystemCoordinates]

setState(this, state) == [this EXCEPT !.state = state]

\* A completion test against the wrong member of the enum.
isCompleted_WrongState(this) == this.state = TOO_FAR_IN_SYSTEM

isCompleted(this) == this.state = CLOSE_ENOUGH

\* An equality that compares the target systems only.
equals_SameSystem(this, other) ==
    IF other.kind # "MissionFlyByNode" THEN FALSE
    ELSE starSystemCoordinatesEquals(this.targetSystemCoordinates,
                                     other.targetSystemCoordinates)

equals(this, other) ==
    IF other.kind # "MissionFlyByNode" THEN FALSE
    ELSE universeObjectIdEquals(this.objectId, other.objectId)

\* A switch that lacks the STAR case: a star falls to the default.
thresholdMultiplier_StarMissing(type) ==
    CASE type \in {"TELLURIC_PLANET", "TELLURIC_SATELLITE", "GAS_PLANET",
                   "MANDELBULB", "JULIA_SET", "SPACE_STATION", "SPACE_ELEVATOR"} -> 3
      [] type = "NEUTRON_STAR" -> 50
      [] type = "BLACK_HOLE" -> 10
      [] OTHER -> 1

\* A switch whose NEUTRON_STAR case lacks its break and falls into BLACK_HOLE.
thresholdMultiplier_FallThrough(type) ==
    CASE type \in {"STAR", "TELLURIC_PLANET", "TELLURIC_SATELLITE", "GAS_PLANET",
                   "MANDELBULB", "JULIA_SET", "SPACE_STATION", "SPACE_ELEVATOR"} -> 3
      [] type \in {"NEUTRON_STAR", "BLACK_HOLE"} -> 10
      [] OTHER -> 1

\* The switch of updateState: the multiplier of the bounding radius.
thresholdMultiplier(type) ==
    CASE type \in {"STAR", "TELLURIC_PLANET", "TELLURIC_SATELLITE", "GAS_PLANET",
                   "MANDELBULB", "JULIA_SET", "SPACE_STATION", "SPACE_ELEVATOR"} -> 3
      [] type = "NEUTRON_STAR" -> 50
      [] type = "BLACK_HOLE" -> 10
      [] OTHER -> 1

\* The end of updateState, once the target is resolved: the state the
\* player's distance to the target gives.
stateFromDistance(targetObject, context) ==
    LET playerPosition == context.playerPosition
        distance == Distance(playerPosition, targetObject.position)
        distanceThreshold ==
            targetObject.boundingRadius * thresholdMultiplier(targetObject.model.type)
    IN  IF distance < distanceThreshold THEN CLOSE_ENOUGH ELSE TOO_FAR_IN_SYSTEM

(***************************************************************************)
(* Variants of updateState, each with one slip.                            *)
(***************************************************************************)
\* The wrong-system branch lacks its return and runs on into the lookup.
updateState_MissingReturn(this, context) ==
    IF isCompleted(this) THEN [node |-> this, threw |-> FALSE, context |-> context]
    ELSE
    LET currentSystem == context.currentSystem
        currentSystemModel == currentSystem.model
        marked ==
            IF ~starSystemCoordinatesEquals(currentSystemModel.coordinates,
                                            this.targetSystemCoordinates)
            THEN [this EXCEPT !.state = NOT_IN_SYSTEM] ELSE this
        targetObject == getObjectBySystemId(this.objectId, currentSystem)
    IN  IF targetObject = Null THEN [node |-> marked, threw |-> TRUE, context |-> context]
        ELSE [node |-> [this EXCEPT !.state =
                            stateFromDistance(targetObject, context)],
              threw |-> FALSE, context |-> context]

\* The wrong-system branch returns without assigning NOT_IN_SYSTEM.
updateState_SkipWrongSystem(this, context) ==
    IF isCompleted(this) THEN [node |-> this, threw |-> FALSE, context |-> context]
    ELSE
    LET currentSystem == context.currentSystem
        currentSystemModel == currentSystem.model
    IN  IF ~starSystemCoordinatesEquals(currentSystemModel.coordinates,
                                        this.targetSystemCoordinates)
        THEN [node |-> this, threw |-> FALSE, context |-> context]
        ELSE
        LET targetObject == getObjectBySystemId(this.objectId, currentSystem)
        IN  IF targetObject = Null THEN [node |-> this, threw |-> TRUE, context |-> context]
            ELSE [node |-> [this EXCEPT !.state =
                                stateFromDistance(targetObject, context)],
                  threw |-> FALSE, context |-> context]

\* The target is looked up before the systems are compared.
updateState_ResolveFirst(this, context) ==
    IF isCompleted(this) THEN [node |-> this, threw |-> FALSE, context |-> context]
    ELSE
    LET currentSystem == context.currentSystem
        currentSystemModel == currentSystem.model
        targetObject == getObjectBySystemId(this.objectId, currentSystem)
    IN  IF targetObject = Null THEN [node |-> this, threw |-> TRUE, context |-> context]
        ELSE IF ~starSystemCoordinatesEquals(currentSystemModel.coordinates,
                                             this.targetSystemCoordinates)
        THEN [node |-> [this EXCEPT !.state = NOT_IN_SYSTEM], threw |-> FALSE, context |-> context]
        ELSE [node |-> [this EXCEPT !.state =
                            stateFromDistance(targetObject, context)],
              threw |-> FALSE, context |-> context]

\* The node is marked as in the system before the target is looked up.
updateState_AssignBeforeThrow(this, context) ==
    IF isCompleted(this) THEN [node |-> this, threw |-> FALSE, context |-> context]
    ELSE
    LET currentSystem == context.currentSystem
        currentSystemModel == currentSystem.model
    IN  IF ~starSystemCoordinatesEquals(currentSystemModel.coordinates,
                                        this.targetSystemCoordinates)
        THEN [node |-> [this EXCEPT !.state = NOT_IN_SYSTEM], threw |-> FALSE, context |-> context]
        ELSE
        LET targetObject == getObjectBySystemId(this.objectId, currentSystem)
        IN  IF targetObject = Null
            THEN [node |-> [this EXCEPT !.state = TOO_FAR_IN_SYSTEM], threw |-> TRUE, context |-> context]
            ELSE [node |-> [this EXCEPT !.state =
                                stateFromDistance(targetObject, context)],
                  threw |-> FALSE, context |-> context]

\* A node that was NOT_IN_SYSTEM first becomes TOO_FAR_IN_SYSTEM, and is
\* measured against the threshold only from the next call on.
updateState_Stepwise(this, context) ==
    IF isCompleted(this) THEN [node |-> this, threw |-> FALSE, context |-> context]
    ELSE
    LET currentSystem == context.currentSystem
        currentSystemModel == currentSystem.model
    IN  IF ~starSystemCoordinatesEquals(currentSystemModel.coordinates,
                                        this.targetSystemCoordinates)
        THEN [node |-> [this EXCEPT !.state = NOT_IN_SYSTEM], threw |-> FALSE, context |-> context]
        ELSE
        LET targetObject == getObjectBySystemId(this.objectId, currentSystem)
        IN  IF targetObject = Null THEN [node |-> this, threw |-> TRUE, context |-> context]
            ELSE IF this.state = NOT_IN_SYSTEM
            THEN [node |-> [this EXCEPT !.state = TOO_FAR_IN_SYSTEM], threw |-> FALSE, context |-> context]
            ELSE [node |-> [this EXCEPT !.state =
                                stateFromDistance(targetObject, context)],
                  threw |-> FALSE, context |-> context]

\* The target is replaced by the current system where the two differ.
updateState_Retarget(this, context) ==
    IF isCompleted(this) THEN [node |-> this, threw |-> FALSE, context |-> context]
    ELSE
    LET currentSystem == context.currentSystem
        currentSystemModel == currentSystem.model
    IN  IF ~starSystemCoordinatesEquals(currentSystemModel.coordinates,
                                        this.targetSystemCoordinates)
        THEN [node |-> [this EXCEPT !.state = NOT_IN_SYSTEM,
                                    !.targetSystemCoordinates =
                                        currentSystemModel.coordinates],
              threw |-> FALSE, context |-> context]
        ELSE
        LET targetObject == getObjectBySystemId(this.objectId, currentSystem)
        IN  IF targetObject = Null
            THEN [node |-> this, threw |-> TRUE, context |-> context]
            ELSE [node |-> [this EXCEPT !.state =
                                stateFromDistance(targetObject, context)],
                  threw |-> FALSE, context |-> context]

\* A target that is not found counts as too far instead of raising.
updateState_SilentMissing(this, context) ==
    IF isCompleted(this) THEN [node |-> this, threw |-> FALSE, context |-> context]
    ELSE
    LET currentSystem == context.currentSystem
        currentSystemModel == currentSystem.model
    IN  IF ~starSystemCoordinatesEquals(currentSystemModel.coordinates,
                                        this.targetSystemCoordinates)
        THEN [node |-> [this EXCEPT !.state = NOT_IN_SYSTEM],
              threw |-> FALSE, context |-> context]
        ELSE
        LET targetObject == getObjectBySystemId(this.objectId, currentSystem)
        IN  IF targetObject = Null
            THEN [node |-> [this EXCEPT !.state = TOO_FAR_IN_SYSTEM],
                  threw |-> FALSE, context |-> context]
            ELSE [node |-> [this EXCEPT !.state =
                                stateFromDistance(targetObject, context)],
                  threw |-> FALSE, context |-> context]

\* updateState(context): the node it leaves, whether it threw, and the
\* context as the call leaves it (the method only reads it).
updateState(this, context) ==
    IF isCompleted(this) THEN [node |-> this, threw |-> FALSE, context |-> context]
    ELSE
    LET currentSystem == context.currentSystem
        currentSystemModel == currentSystem.model
    IN  IF ~starSystemCoordinatesEquals(currentSystemModel.coordinates,
                                        this.targetSystemCoordinates)
        THEN [node |-> [this EXCEPT !.state = NOT_IN_SYSTEM], threw |-> FALSE, context |-> context]
        ELSE
        LET targetObject == getObjectBySystemId(this.objectId, currentSystem)
        IN  IF targetObject = Null THEN [node |-> this, threw |-> TRUE, context |-> context]
            ELSE [node |-> [this EXCEPT !.state =
                                stateFromDistance(targetObject, context)],
                  threw |-> FALSE, context |-> context]

\* A serialization that writes the initial state instead of the current one.
serialize_InitialState(this) ==
    [type |-> "FLY_BY",
     children |-> <<>>,
     objectId |-> this.objectId,
     state |-> NOT_IN_SYSTEM]

serialize(this) ==
    [type |-> "FLY_BY",
     children |-> <<>>,
     objectId |-> this.objectId,
     state |-> this.state]

\* Deserialization of a fly-by record: the constructor, then setState.
deserialize(m) == setState(MissionFlyByNode(m.objectId), m.state)

(***************************************************************************)
(* Texts.  i18n.t(key, args) is kept as the key and its arguments.         *)
(***************************************************************************)
i18n_t(key, args) == [key |-> key, args |-> args]

\* The model of the object an id names, regenerated from its coordinates,
\* or null when the system holds no object at the id's index.
getObjectModelByUniverseId(universeObjectId) ==
    LET objects == OrbitalObjectsAt(universeObjectId.starSystemCoordinates)
        index == universeObjectId.objectIndex
    IN  IF index + 1 \in DOMAIN objects
        THEN [name |-> [system |-> universeObjectId.starSystemCoordinates,
                        index |-> index],
              type |-> objects[index + 1].model.type]
        ELSE Null

\* The instructions to travel to a system, for a keyboard layout.
getGoToSystemInstructions(context, targetSystemCoordinates, keyboardLayout) ==
    i18n_t("missions:common:goToSystem",
           [currentSystem |-> context.currentSystem.model.coordinates,
            targetSystem |-> targetSystemCoordinates,
            keyboardLayout |-> keyboardLayout])

\* A list of targets that is empty once the mission is completed.
getTargetSystems_NoneWhenCompleted(this) ==
    IF this.state = CLOSE_ENOUGH THEN <<>> ELSE <<this.targetSystemCoordinates>>

getTargetSystems(this) == <<this.targetSystemCoordinates>>

\* A description that lacks the early return of a completed mission and
\* whose switch has no CLOSE_ENOUGH case: it falls to the last text.
describeNextTask_NoCompletedCase(this, context, keyboardLayout) ==
    LET targetObject == getObjectModelByUniverseId(this.objectId)
    IN  IF targetObject = Null
        THEN {[text |-> Null, threw |-> TRUE]}
        ELSE IF this.state = NOT_IN_SYSTEM
        THEN {[text |-> getGoToSystemInstructions(context,
                            this.targetSystemCoordinates, keyboardLayout),
               threw |-> FALSE]}
        ELSE {[text |-> i18n_t("missions:common:getCloserToTarget",
                               [objectName |-> targetObject.name]),
               threw |-> FALSE]}

\* describeNextTask(context, keyboardLayout): the outcomes the call may have,
\* each the text returned or a throw.  The lookup of the target's model
\* precedes the switch; when the id names no object, the lookup raises or
\* yields no model, and then only the branch that does not read the
\* model's name can still return.
describeNextTask(this, context, keyboardLayout) ==
    IF isCompleted(this)
    THEN {[text |-> i18n_t("missions:flyBy:missionCompleted", Null), threw |-> FALSE]}
    ELSE
    LET targetObject == getObjectModelByUniverseId(this.objectId)
        goToSystem ==
            [text |-> getGoToSystemInstructions(context,
                          this.targetSystemCoordinates, keyboardLayout),
             threw |-> FALSE]
    IN  IF targetObject = Null
        THEN {[text |-> Null, threw |-> TRUE]}
                \cup (IF this.state = NOT_IN_SYSTEM THEN {goToSystem} ELSE {})
        ELSE CASE this.state = NOT_IN_SYSTEM -> {goToSystem}
               [] this.state = TOO_FAR_IN_SYSTEM ->
                    {[text |-> i18n_t("missions:common:getCloserToTarget",
                                      [objectName |-> targetObject.name]),
                      threw |-> FALSE]}
               [] this.state = CLOSE_ENOUGH ->
                    {[text |-> i18n_t("missions:flyBy:missionCompleted", Null),
                      threw |-> FALSE]}

(***************************************************************************)
(* The galaxy of the mission offers.  Star systems lie on a line; the      *)
(* generator gives each system a name and the models of its objects, and   *)
(* each orbital facility a seed and a faction.                             *)
(***************************************************************************)
GalaxyCoordinates == [starSectorX : 0..1, localX : 0..MaxLocalX]

\* The systems in the order the sectors are walked.
GalaxySystems ==
    [k \in 1..(2 * (MaxLocalX + 1)) |->
        [starSectorX |-> (k - 1) \div (MaxLocalX + 1),
         localX |-> (k - 1) % (MaxLocalX + 1)]]

getStarGalacticPosition(coordinates) ==
    <<11 * coordinates.starSectorX + coordinates.localX * (coordinates.localX + 2), 0, 0>>

Factions == <<"FEYNMAN_INTERSTELLAR", "CHURCH_OF_AWAKENING">>

OrbitalFacilityTypes == {"SPACE_STATION", "SPACE_ELEVATOR"}

\* getSystemModelFromCoordinates(coordinates): the model of the system at
\* the coordinates, a function of the coordinates alone.
getSystemModelFromCoordinates(coordinates) ==
    [coordinates |-> coordinates,
     name |-> [system |-> coordinates],
     orbitalObjects |->
        [i \in DOMAIN OrbitalObjectsAt(coordinates) |->
            [type |-> OrbitalObjectsAt(coordinates)[i].model.type,
             name |-> [system |-> coordinates, index |-> i - 1],
             seed |-> 1 + 11 * coordinates.starSectorX + 3 * coordinates.localX + 5 * (i - 1),
             faction |-> Factions[1 + ((coordinates.starSectorX + coordinates.localX + i) % 2)],
             starSystemCoordinates |-> coordinates]]]

\* StarSystemModelUtils.GetSpaceStations(systemModel)
GetSpaceStations(systemModel) ==
    SelectSeq(systemModel.orbitalObjects,
              LAMBDA object : object.type \in OrbitalFacilityTypes)

\* getNeighborStarSystemCoordinates(coordinates, radius): the other systems
\* within the radius, each with its position and its distance.
getNeighborStarSystemCoordinates(coordinates, radius) ==
    SelectSeq([k \in DOMAIN GalaxySystems |->
                  [coordinates |-> GalaxySystems[k],
                   position |-> getStarGalacticPosition(GalaxySystems[k]),
                   distance |-> Distance(getStarGalacticPosition(GalaxySystems[k]),
                                         getStarGalacticPosition(coordinates))]],
              LAMBDA neighbor : /\ neighbor.coordinates # coordinates
                                /\ neighbor.distance <= radius)

\* Every orbital facility of the galaxy: the stations that may offer missions.
OrbitalFacilityModels ==
    UNION {{GetSpaceStations(getSystemModelFromCoordinates(coordinates))[i] :
                i \in DOMAIN GetSpaceStations(getSystemModelFromCoordinates(coordinates))} :
           coordinates \in GalaxyCoordinates}

(***************************************************************************)
(* Seeded draws.  A generator is its seed; rand(rng, step) is the draw of  *)
(* a step, a number of RandResolution-ths in [0, 1).  A probability is a   *)
(* fraction num / den.                                                     *)
(***************************************************************************)
RandResolution == 16

\* A generator whose draws change with the clock.
getRngFromSeed_Clock(seed) == [seed |-> seed + clock]

getRngFromSeed(seed) == [seed |-> seed]

rand(rng, step) ==
    (7 * rng.seed + 13 * step + ((rng.seed * step) % 5)) % RandResolution

\* uniformRandBool(p, rng, step): the draw of the step is below p.
uniformRandBool(p, rng, step) == rand(rng, step) * p.den < p.num * RandResolution

(***************************************************************************)
(* Sightseeing missions.  The clock counts half hours; the offers of a     *)
(* station are drawn from its seed and the hour of the timestamp, among    *)
(* the objects of its star system.                                         *)
(***************************************************************************)
TicksPerHour == 2

Player == [name |-> "player"]

hourBucket(timestamp) == timestamp \div TicksPerHour

generateSightseeingMissions(stationModel, starSystemModel, player, timestamp) ==
    LET rng == getRngFromSeed(stationModel.seed + 31 * hourBucket(timestamp))
        offered == SelectSeq([i \in DOMAIN starSystemModel.orbitalObjects |-> i],
                             LAMBDA i : uniformRandBool([num |-> 1, den |-> 2], rng, i))
    IN  [k \in DOMAIN offered |->
            [type |-> "sightseeing",
             missionGiver |-> stationModel.name,
             target |-> [starSystemCoordinates |-> starSystemModel.coordinates,
                         objectIndex |-> offered[k] - 1]]]

(***************************************************************************)
(* generateMissionsDom(stationModel, player): the contact stations.        *)
(***************************************************************************)
\* The radius of the neighbor search and the step of the first draw.
NeighborRadius == 75
FirstDrawStep == 325

\* A keep probability that falls with the distance, not with its square.
keepProbability_Linear(distance) == [num |-> 50, den |-> 50 + distance]

\* 1.0 / (1.0 + 0.02 * (distance * distance)), with 0.02 read as 1/50.
keepProbability(distance) == [num |-> 50, den |-> 50 + distance * distance]

\* A second filter that does what its comment says: it drops the stations
\* of the offering station's faction.
sameFaction_FilteredOut(station, stationModel) == station.faction # stationModel.faction

\* The predicate of the second filter.
sameFaction(station, stationModel) == station.faction = stationModel.faction

\* The stations of the neighbor systems, each with its system's distance,
\* in the order of the neighbor systems.
RECURSIVE gatherSpaceStations(_)
gatherSpaceStations(neighborSystems) ==
    IF neighborSystems = <<>> THEN <<>>
    ELSE LET neighbor == Head(neighborSystems)
             systemModel == getSystemModelFromCoordinates(neighbor.coordinates)
             spaceStations == GetSpaceStations(systemModel)
         IN  [i \in DOMAIN spaceStations |->
                 [station |-> spaceStations[i], distance |-> neighbor.distance]]
                 \o gatherSpaceStations(Tail(neighborSystems))

\* A sort that leaves the list as it is.
sortByDistance_Unsorted(entries) == entries

\* Array.sort((a, b) => a[1] - b[1]): a stable sort, ascending by distance.
RECURSIVE sortByDistance(_)
sortByDistance(entries) ==
    IF entries = <<>> THEN <<>>
    ELSE LET n == Len(entries)
             sorted == sortByDistance(SubSeq(entries, 1, n - 1))
             e == entries[n]
             before == SelectSeq(sorted, LAMBDA x : x.distance <= e.distance)
             after == SelectSeq(sorted, LAMBDA x : x.distance > e.distance)
         IN  before \o <<e>> \o after

\* What a call of generateMissionsDom at time `now` computes: the system
\* model of the station, the gathered neighbor stations, the draw made for
\* each of them, and the contact stations listed in the page.
generateMissionsDom(stationModel, player, now) ==
    LET starSystemModel == getSystemModelFromCoordinates(stationModel.starSystemCoordinates)
        sightSeeingMissions ==
            generateSightseeingMissions(stationModel, starSystemModel, player, now)
        neighborSystems ==
            getNeighborStarSystemCoordinates(starSystemModel.coordinates, NeighborRadius)
        rng == getRngFromSeed(stationModel.seed)
        neighborSpaceStations == gatherSpaceStations(neighborSystems)
        draws ==
            [i \in DOMAIN neighborSpaceStations |->
                LET probability == keepProbability(neighborSpaceStations[i].distance)
                    step == FirstDrawStep + (i - 1)
                IN  [index |-> i - 1,
                     probability |-> probability,
                     step |-> step,
                     kept |-> uniformRandBool(probability, rng, step)]]
        indices == SelectSeq([i \in DOMAIN neighborSpaceStations |-> i],
                             LAMBDA i : draws[i].kept)
        pruned == [k \in DOMAIN indices |-> neighborSpaceStations[indices[k]]]
        filtered == SelectSeq(pruned, LAMBDA e : sameFaction(e.station, stationModel))
    IN  [stationModel |-> stationModel,
         player |-> player,
         timestamp |-> now,
         sightSeeingMissions |-> sightSeeingMissions,
         starSystemModel |-> starSystemModel,
         neighborSystemModels |->
            [k \in DOMAIN neighborSystems |->
                getSystemModelFromCoordinates(neighborSystems[k].coordinates)],
         generations |-> 1 + Len(neighborSystems),
         neighborSpaceStations |-> neighborSpaceStations,
         draws |-> draws,
         filtered |-> filtered,
         contactStations |-> sortByDistance(filtered)]

(***************************************************************************)
(* describe(originSystemCoordinates): the text of the mission offer.  It   *)
(* raises when the objectId names no object.  The lookup of such an id     *)
(* either raises itself, before the system model is generated, or yields   *)
(* null, and then the read of the object's type raises after the system    *)
(* model was generated: `generations` holds how many system models the     *)
(* call may have generated.                                                *)
(***************************************************************************)
describe(this, originSystemCoordinates) ==
    LET distance == Distance(getStarGalacticPosition(originSystemCoordinates),
                             getStarGalacticPosition(this.targetSystemCoordinates))
        objectModel == getObjectModelByUniverseId(this.objectId)
        systemModel == getSystemModelFromCoordinates(this.targetSystemCoordinates)
    IN  IF objectModel = Null
        THEN [threw |-> TRUE, text |-> Null, systemModel |-> Null, generations |-> {0, 1}]
        ELSE [threw |-> FALSE,
              generations |-> {1},
              text |-> i18n_t("missions:sightseeing:describeFlyBy",
                              [objectType |-> objectModel.type,
                               systemName |-> systemModel.name,
                               distance |-> IF distance > 0
                                            THEN [lightYears |-> distance]
                                            ELSE i18n_t("missions:common:here", Null)]),
              systemModel |-> systemModel]

(***************************************************************************)
(* The discovery panel (DiscoveryDetails).  A discovery is compared by     *)
(* identity; here each has its own objectId.  The player starts with two   *)
(* local discoveries and one that is already uploaded.                     *)
(***************************************************************************)
SpaceDiscoveryData ==
    {[objectId |-> [starSystemCoordinates |-> [starSectorX |-> 0, localX |-> 0],
                    objectIndex |-> index]] : index \in 0..2}

Discovery(index) ==
    [objectId |-> [starSystemCoordinates |-> [starSectorX |-> 0, localX |-> 0],
                   objectIndex |-> index]]

\* encyclopaedia.estimateDiscovery(objectId): the value the request
\* resolves to.
estimateDiscovery(objectId) == 100 * (objectId.objectIndex + 1)

\* The text the constructor gives the button: "Sell", not translated.
SellText == [key |-> "Sell", args |-> Null]

\* i18n.t("common:sellFor", { price })
sellFor(value) == i18n_t("common:sellFor", [price |-> value])

\* A filter that removes nothing.
without_Nothing(seq, d) == seq

\* The sequence without the entries equal to d: filter((x) => x !== d).
without(seq, d) == SelectSeq(seq, LAMBDA x : x # d)

includes(seq, d) == \E i \in DOMAIN seq : seq[i] = d

\* The panel after the constructor (setDiscovery(null) included), and the
\* player it is built for.
NewDiscoveryDetails ==
    /\ currentDiscovery = Null
    /\ sellDiscoveryButton = [displayed |-> FALSE, textContent |-> SellText]
    /\ playerState = [balance |-> 0,
                      discoveries |-> [local |-> <<Discovery(0), Discovery(1)>>,
                                       uploaded |-> <<Discovery(2)>>]]
    /\ pendingSells = <<>>
    /\ pendingLabels = <<>>
    /\ lastSale = Null

\* The sequence without its i-th entry.
RemoveAt(seq, i) == SubSeq(seq, 1, i - 1) \o SubSeq(seq, i + 1, Len(seq))

\* A handler that sells the discovery it was clicked for, whatever the
\* panel shows when the estimate arrives.
soldDiscovery_Clicked(sale, current) == sale.awaited

\* The discovery the sell handler removes, uploads and notifies once its
\* estimate has arrived: this.currentDiscovery, read after the await.
soldDiscovery(sale, current) == current

\* A label that is written only if its discovery is still the one shown.
labelAfterEstimate_IfCurrent(button, request, current) ==
    IF request.discovery = current
    THEN [button EXCEPT !.textContent = sellFor(estimateDiscovery(request.discovery.objectId))]
    ELSE button

\* The button after the estimate of a setDiscovery call has arrived: its
\* text is the price of the discovery the estimate was requested for.
labelAfterEstimate(button, request, current) ==
    [button EXCEPT !.textContent = sellFor(estimateDiscovery(request.discovery.objectId))]

(***************************************************************************)
(* class Spaceship: its fuel tanks, its fuel scoop and its warp drive.     *)
(* Fuel is counted in quarters of the source's unit: the tank of 100 of    *)
(* the default ship holds 400, its scoop of 2.5 per second yields 10.  A   *)
(* ship is a record; distanceToBody is the distance between its position   *)
(* and that of the nearest celestial body.  Every method is an operator that returns the ship it leaves      *)
(* behind, whether it threw, what it returned and the observables it       *)
(* notified, in order.                                                     *)
(***************************************************************************)
FuelTank(currentFuel, maxFuel) == [currentFuel |-> currentFuel, maxFuel |-> maxFuel]

FuelTank_burnFuel(tank, amount) == [tank EXCEPT !.currentFuel = @ - amount]

FuelTank_fill(tank, amount) == [tank EXCEPT !.currentFuel = @ + amount]

\* The warp drive is ENABLED, DISENGAGING (slowing down after disengage) or
\* DISABLED.
WarpDrive_isEnabled(warpDrive) == warpDrive.state = "ENABLED"

WarpDrive_isDisabled(warpDrive) == warpDrive.state = "DISABLED"

WarpDrive_disengage(warpDrive) == [warpDrive EXCEPT !.state = "DISENGAGING"]

\* warpDrive.update: a disengaging drive that has slowed down is disabled.
WarpDrive_update(warpDrive, disengaged) ==
    IF warpDrive.state = "DISENGAGING" /\ disengaged
    THEN [warpDrive EXCEPT !.state = "DISABLED"]
    ELSE warpDrive

WarpDrive_enable(warpDrive) == [warpDrive EXCEPT !.state = "ENABLED"]

WarpDrive_emergencyStop(warpDrive) == [warpDrive EXCEPT !.state = "DISABLED"]

\* const enum ShipState
FLYING == "FLYING"
LANDING == "LANDING"
LANDED == "LANDED"

\* The fuel scoop of the default ship: 2.5 per second, in quarters.
FuelPerSecond == 10

\* DefaultSerializedSpaceship: one full tank of 100 and the scoop.
DefaultSerializedSpaceship ==
    [fuelTanks |-> <<FuelTank(400, 400)>>,
     fuelScoop |-> [fuelPerSecond |-> FuelPerSecond]]

\* new Spaceship(serializedSpaceShip, scene)
Spaceship(fuelTanks, fuelScoop) ==
    [fuelTanks |-> fuelTanks,
     fuelScoop |-> fuelScoop,
     isFuelScooping |-> FALSE,
     nearestCelestialBody |-> Null,
     distanceToBody |-> 0,
     warpDrive |-> [state |-> "DISABLED"],
     mainEngineThrottle |-> 0,
     state |-> FLYING,
     landingTarget |-> Null,
     targetLandingPad |-> Null,
     closestWalkableObject |-> Null]

Min(a, b) == IF a < b THEN a ELSE b

\* The main engine throttle is counted in quarters: full throttle, 1 in
\* the source, is 4, and full reverse -4.
FullThrottle == 4

\* increaseMainEngineThrottle(delta): the sum is kept between full reverse
\* and full throttle.
increaseMainEngineThrottle(this, delta) ==
    LET capped == Min(FullThrottle, this.mainEngineThrottle + delta)
    IN  [this EXCEPT !.mainEngineThrottle =
                         IF capped < -FullThrottle THEN -FullThrottle ELSE capped]

RECURSIVE SumOver(_, _)
SumOver(tanks, field) ==
    IF tanks = <<>> THEN 0 ELSE Head(tanks)[field] + SumOver(Tail(tanks), field)

getTotalFuelCapacity(this) == SumOver(this.fuelTanks, "maxFuel")

getRemainingFuel(this) == SumOver(this.fuelTanks, "currentFuel")

\* The loop of burnFuel: the tanks it leaves and the fuel left to burn.
RECURSIVE burnFuelLoop(_, _)
burnFuelLoop(tanks, fuelLeftToBurn) ==
    IF tanks = <<>> THEN [tanks |-> <<>>, left |-> fuelLeftToBurn]
    ELSE LET tank == Head(tanks)
             tankRemainingBefore == tank.currentFuel
             burned == FuelTank_burnFuel(tank, Min(fuelLeftToBurn, tankRemainingBefore))
             tankRemainingAfter == burned.currentFuel
             rest == burnFuelLoop(Tail(tanks),
                                  fuelLeftToBurn - (tankRemainingBefore - tankRemainingAfter))
         IN  [tanks |-> <<burned>> \o rest.tanks, left |-> rest.left]

burnFuel(this, amount) ==
    IF amount > getRemainingFuel(this)
    THEN [ship |-> this, threw |-> TRUE, result |-> Null]
    ELSE LET loop == burnFuelLoop(this.fuelTanks, amount)
         IN  [ship |-> [this EXCEPT !.fuelTanks = loop.tanks],
              threw |-> FALSE,
              result |-> [amount |-> amount - loop.left]]

\* What one tank is filled with: a variant that pours all that is left.
refuelShare_All(fuelLeftToRefuel, tank) == fuelLeftToRefuel

refuelShare(fuelLeftToRefuel, tank) ==
    Min(fuelLeftToRefuel, tank.maxFuel - tank.currentFuel)

\* The loop of refuel: the tanks it leaves and the fuel left to refuel.
RECURSIVE refuelLoop(_, _)
refuelLoop(tanks, fuelLeftToRefuel) ==
    IF tanks = <<>> THEN [tanks |-> <<>>, left |-> fuelLeftToRefuel]
    ELSE LET tank == Head(tanks)
             tankRemainingBefore == tank.currentFuel
             filled == FuelTank_fill(tank, refuelShare(fuelLeftToRefuel, tank))
             tankRemainingAfter == filled.currentFuel
             rest == refuelLoop(Tail(tanks),
                                fuelLeftToRefuel - (tankRemainingAfter - tankRemainingBefore))
         IN  [tanks |-> <<filled>> \o rest.tanks, left |-> rest.left]

refuel(this, amount) ==
    LET loop == refuelLoop(this.fuelTanks, amount)
    IN  [ship |-> [this EXCEPT !.fuelTanks = loop.tanks],
         threw |-> FALSE,
         result |-> [amount |-> amount - loop.left]]

enableWarpDrive(this) ==
    [ship |-> [this EXCEPT !.warpDrive = WarpDrive_enable(@)],
     notified |-> <<"onWarpDriveEnabled">>]

\* emergencyStopWarpDrive: a variant that does nothing to a drive that is
\* not enabled.
emergencyStopWarpDrive_IfEnabled(this) ==
    IF WarpDrive_isEnabled(this.warpDrive)
    THEN [ship |-> [this EXCEPT !.warpDrive = WarpDrive_emergencyStop(@)],
          notified |-> <<"onWarpDriveDisabled(true)">>]
    ELSE [ship |-> this, notified |-> <<>>]

emergencyStopWarpDrive(this) ==
    [ship |-> [this EXCEPT !.warpDrive = WarpDrive_emergencyStop(@)],
     notified |-> <<"onWarpDriveDisabled(true)">>]

disableWarpDrive(this) ==
    [ship |-> [this EXCEPT !.warpDrive = WarpDrive_disengage(@)],
     notified |-> <<"onWarpDriveDisabled(false)">>]

toggleWarpDrive(this) ==
    IF ~WarpDrive_isEnabled(this.warpDrive) THEN enableWarpDrive(this)
    ELSE disableWarpDrive(this)

\* engagePlanetaryLanding: a variant that tests the target before it
\* assigns anything.
engagePlanetaryLanding_TestsFirst(this, landingTarget) ==
    LET target == IF landingTarget # Null THEN landingTarget
                  ELSE this.closestWalkableObject
    IN  IF target = Null
        THEN [ship |-> this, threw |-> TRUE, notified |-> <<>>]
        ELSE [ship |-> [this EXCEPT !.state = LANDING, !.landingTarget = target],
              threw |-> FALSE,
              notified |-> <<"onPlanetaryLandingEngaged">>]

\* engagePlanetaryLanding(landingTarget): the state and the target are
\* assigned before the target is tested.
engagePlanetaryLanding(this, landingTarget) ==
    LET target == IF landingTarget # Null THEN landingTarget
                  ELSE this.closestWalkableObject
        engaged == [this EXCEPT !.state = LANDING, !.landingTarget = target]
    IN  IF target = Null
        THEN [ship |-> engaged, threw |-> TRUE, notified |-> <<>>]
        ELSE [ship |-> engaged, threw |-> FALSE,
              notified |-> <<"onPlanetaryLandingEngaged">>]

engageLandingOnPad(this, landingPad) == [this EXCEPT !.targetLandingPad = landingPad]

\* completeLanding, with a variant that keeps the landing target.
completeLanding_KeepsTarget(this) ==
    [ship |-> [this EXCEPT !.state = LANDED],
     notified |-> <<"onLandingObservable">>]

completeLanding(this) ==
    [ship |-> [this EXCEPT !.state = LANDED, !.landingTarget = Null],
     notified |-> <<"onLandingObservable">>]

cancelLanding(this) ==
    [ship |-> [this EXCEPT !.state = FLYING, !.landingTarget = Null,
                           !.targetLandingPad = Null],
     notified |-> <<"onLandingCancelled">>]

\* spawnOnPad(landingPad): the ship is put on the pad, so that its distance
\* to the nearest celestial body becomes distanceOfPad, the distance of its
\* place on the pad to that body.
spawnOnPad(this, landingPad, distanceOfPad) ==
    LET engaged == engageLandingOnPad(this, landingPad)
        placed == IF this.nearestCelestialBody # Null
                  THEN [engaged EXCEPT !.distanceToBody = distanceOfPad]
                  ELSE engaged
    IN  completeLanding(placed)

takeOff(this) ==
    [ship |-> [this EXCEPT !.targetLandingPad = Null, !.state = FLYING],
     notified |-> <<"onTakeOff">>]

\* land(deltaTime): rayHit tells that the ray hit the ground, and then the
\* ship is translated towards the landing spot; touchedDown that the
\* ship is within half its height of the landing spot and upright.
land(this, rayHit, touchedDown) ==
    IF this.landingTarget # Null /\ rayHit /\ touchedDown
    THEN completeLanding(this)
    ELSE [ship |-> this, notified |-> <<>>]

\* landOnPad(landingPad): padReached tells that the ship is within
\* (padHeight + its height) / 2 of the pad.
landOnPad(this, padReached) ==
    LET idle == [this EXCEPT !.mainEngineThrottle = 0]
    IN  IF padReached THEN completeLanding(idle)
        ELSE [ship |-> idle, notified |-> <<>>]

\* Math.abs(currentFuelPercentage - 1) < 0.01; no number when the capacity is 0.
nearlyFull(this) ==
    LET capacity == getTotalFuelCapacity(this)
    IN  /\ capacity > 0
        /\ Abs(getRemainingFuel(this) - capacity) * 100 < capacity

\* The range test of the scoop: a variant that finds every distance in range.
tooFarToScoop_Never(distanceToBody, body) == FALSE

\* distanceToBody > getBoundingRadius() * 1.7
tooFarToScoop(distanceToBody, body) == distanceToBody * 10 > body.boundingRadius * 17

\* Fuel availability, in tenths.
fuelAvailability(type) ==
    CASE type = "STAR" -> 10
      [] type = "GAS_PLANET" -> 3
      [] OTHER -> 0

handleFuelScoop(this, deltaSeconds) ==
    IF this.fuelScoop = Null THEN [ship |-> this, notified |-> <<>>]
    ELSE IF this.nearestCelestialBody = Null THEN [ship |-> this, notified |-> <<>>]
    ELSE IF this.nearestCelestialBody.type \notin {"STAR", "GAS_PLANET"}
    THEN [ship |-> this, notified |-> <<>>]
    ELSE IF \/ nearlyFull(this)
            \/ tooFarToScoop(this.distanceToBody, this.nearestCelestialBody)
    THEN IF this.isFuelScooping
         THEN [ship |-> [this EXCEPT !.isFuelScooping = FALSE],
               notified |-> <<"onFuelScoopEnd">>]
         ELSE [ship |-> this, notified |-> <<>>]
    ELSE LET started == [this EXCEPT !.isFuelScooping = TRUE]
             amount == (this.fuelScoop.fuelPerSecond
                            * fuelAvailability(this.nearestCelestialBody.type)
                            * deltaSeconds) \div 10
         IN  [ship |-> refuel(started, amount).ship,
              notified |-> IF this.isFuelScooping THEN <<>> ELSE <<"onFuelScoopStart">>]

\* The fuel test of update: a variant that also burns all that remains.
burnsFuel_AllThatRemains(fuelToBurn, remaining) == fuelToBurn <= remaining

burnsFuel(fuelToBurn, remaining) == fuelToBurn < remaining

\* The check of the warp drive in update: a variant that stops it only
\* when it cannot be engaged and the ship is not landed.
stopsWarpDrive_UnlessLanded(this, canEngage) ==
    WarpDrive_isEnabled(this.warpDrive) /\ ~canEngage /\ this.state # LANDED

stopsWarpDrive(this, canEngage) == WarpDrive_isEnabled(this.warpDrive) /\ ~canEngage

\* What a tick reads of the world.  canEngage is what canEngageWarpDrive()
\* answers, disengaged whether warpDrive.update ends a disengagement,
\* nearPad whether the ship is within 600 of the target pad and above it,
\* padReached, rayHit and touchedDown what landOnPad and land find,
\* displacement by how much the translations of the tick (by the warp
\* speed, towards the landing spot) change the distance to the nearest
\* celestial body, and fuelToBurn what warpDrive.getFuelConsumption answers
\* for the distance travelled.
UpdateInputs(canEngage, disengaged, nearPad, padReached, rayHit, touchedDown, displacement, fuelToBurn) ==
    [canEngage |-> canEngage, disengaged |-> disengaged, nearPad |-> nearPad,
     padReached |-> padReached, rayHit |-> rayHit, touchedDown |-> touchedDown,
     displacement |-> displacement, fuelToBurn |-> fuelToBurn]

\* A step of update after the steps before it: the ship it leaves and the
\* observables notified so far.
AndThen(previous, step) ==
    [ship |-> step.ship, notified |-> previous.notified \o step.notified]

\* update, the check of the warp drive: an enabled drive that cannot be
\* engaged here is stopped.
checkWarpDrive(scooped, tick) ==
    IF stopsWarpDrive(scooped.ship, tick.canEngage)
    THEN AndThen(scooped, emergencyStopWarpDrive(scooped.ship))
    ELSE scooped

\* update, this.warpDrive.update(...)
updateWarpDrive(checked, tick) ==
    [checked EXCEPT !.ship.warpDrive = WarpDrive_update(@, tick.disengaged)]

\* update, the automatic landing on the target pad: with the warp drive
\* disabled and the ship not landed, within reach of the pad.
approachPad(driven, tick) ==
    IF /\ WarpDrive_isDisabled(driven.ship.warpDrive)
       /\ driven.ship.state # LANDED
       /\ driven.ship.targetLandingPad # Null
       /\ tick.nearPad
    THEN AndThen(driven, landOnPad([driven.ship EXCEPT !.state = LANDING],
                                   tick.padReached))
    ELSE driven

\* update, the planetary landing of a ship in state LANDING.
landIfLanding(onPad, tick) ==
    IF onPad.ship.state = LANDING
    THEN AndThen(onPad, land(onPad.ship, tick.rayHit, tick.touchedDown))
    ELSE onPad

\* update, the translations of the tick: by the warp speed when the warp
\* drive is enabled, towards the landing spot when a landing ship's ray
\* hits the ground.  They move the ship relative to the nearest body.
translates(onPad, tick) ==
    \/ WarpDrive_isEnabled(onPad.ship.warpDrive)
    \/ /\ onPad.ship.state = LANDING
       /\ onPad.ship.landingTarget # Null
       /\ tick.rayHit

translate(landed, moved, tick) ==
    IF moved /\ landed.ship.nearestCelestialBody # Null
    THEN [landed EXCEPT !.ship.distanceToBody = @ + tick.displacement]
    ELSE landed

\* update, the fuel of the tick.  `translated` tells that the ship was
\* translated by the warp speed in this tick, `moved` that it was
\* translated at all.
burnTickFuel(landed, translated, moved, tick) ==
    LET remaining == getRemainingFuel(landed.ship)
    IN  IF burnsFuel(tick.fuelToBurn, remaining)
        THEN LET burned == burnFuel(landed.ship, tick.fuelToBurn)
             IN  [ship |-> burned.ship,
                  threw |-> burned.threw,
                  notified |-> landed.notified,
                  remaining |-> remaining,
                  burned |-> ~burned.threw,
                  translated |-> translated,
                  moved |-> moved]
        ELSE LET stopped == emergencyStopWarpDrive(landed.ship)
             IN  [ship |-> [stopped.ship EXCEPT !.mainEngineThrottle = 0],
                  threw |-> FALSE,
                  notified |-> landed.notified \o stopped.notified,
                  remaining |-> remaining,
                  burned |-> FALSE,
                  translated |-> translated,
                  moved |-> moved]

\* update, from the automatic landing on.
finishUpdate(onPad, tick) ==
    burnTickFuel(translate(landIfLanding(onPad, tick), translates(onPad, tick), tick),
                 WarpDrive_isEnabled(onPad.ship.warpDrive),
                 translates(onPad, tick),
                 tick)

\* update(deltaSeconds)
update(this, deltaSeconds, tick) ==
    finishUpdate(
        approachPad(
            updateWarpDrive(
                checkWarpDrive(handleFuelScoop(this, deltaSeconds), tick), tick), tick),
        tick)

\* The celestial bodies a ship may be nearest to.
CelestialBodies ==
    {[type |-> type, boundingRadius |-> 10]
        : type \in {"STAR", "GAS_PLANET", "TELLURIC_PLANET"}}

\* Distances to the nearest body: at 1.7 bounding radii and just beyond.
ScoopDistances == {17, 18}

\* The ships that are deserialized: two small tanks, full or nearly empty,
\* with the scoop of the default ship or none.
SerializedSpaceships ==
    {[fuelTanks |-> fuelTanks, fuelScoop |-> fuelScoop]
        : fuelTanks \in {<<FuelTank(3, 3), FuelTank(2, 2)>>,
                         <<FuelTank(1, 3), FuelTank(0, 2)>>},
          fuelScoop \in {Null, [fuelPerSecond |-> FuelPerSecond]}}

\* The record of a call on the ship.
ShipCall(op, before, arg, threw, result, notified) ==
    [op |-> op, before |-> before, arg |-> arg, threw |-> threw, result |-> result,
     notified |-> notified]

\* Spaceship.CreateDefault(scene)
NewSpaceship ==
    /\ ship = Spaceship(DefaultSerializedSpaceship.fuelTanks,
                        DefaultSerializedSpaceship.fuelScoop)
    /\ shipLast = ShipCall("constructor", Null, Null, FALSE, Null, <<>>)

(***************************************************************************)
(* Inputs of the operations.                                               *)
(***************************************************************************)
\* Persisted fly-by records.
MissionFlyByNodeSerialized ==
    [type : {"FLY_BY"}, children : {<<>>}, objectId : UniverseObjectId,
     state : FlyByState]

\* Nodes another node may be compared with: fly-by nodes in any state, and
\* nodes of a sibling variant that target the same objects.
OtherNodes ==
    {deserialize(m) : m \in MissionFlyByNodeSerialized}
        \cup {[kind |-> "MissionTerminatorLandingNode", state |-> NOT_IN_SYSTEM,
               objectId |-> id,
               targetSystemCoordinates |-> id.starSystemCoordinates]
                  : id \in UniverseObjectId}

\* The contexts and keyboard layouts a description is asked for.
DescribeContexts ==
    {context \in MissionContext :
        context.playerPosition \in {<<0, 0, 0>>, <<FarDistance, 0, 0>>}}

KeyboardLayouts == {"QWERTY", "AZERTY"}

(***************************************************************************)
(* The record of a call: the operation, the node's state before it, its    *)
(* argument, whether it threw and what it returned.  For updateState,      *)
(* `repeated` tells that the call before it was updateState with the same  *)
(* context, and `prevThrew` that that call threw.                          *)
(***************************************************************************)
Call(op, before, arg, threw, result) ==
    [op |-> op, before |-> before, arg |-> arg, threw |-> threw, result |-> result,
     repeated |-> FALSE, prevThrew |-> FALSE]

(***************************************************************************)
(* Actions: one per method called on the node.                             *)
(***************************************************************************)
Init ==
    \E objectId \in UniverseObjectId :
        /\ node = MissionFlyByNode(objectId)
        /\ last = Call("constructor", NOT_IN_SYSTEM, objectId, FALSE, Null)
        /\ clock = 0
        /\ generated = 0
        /\ missions = Null
        /\ described = Null
        /\ NewDiscoveryDetails
        /\ runs = <<>>
        /\ NewSpaceship

SetState ==
    \E state \in FlyByState :
        /\ node' = setState(node, state)
        /\ last' = Call("setState", node.state, state, FALSE, Null)
        /\ UNCHANGED <<missionsVars, discoveryVars, shipVars, pagesVars>>

UpdateState ==
    \E context \in MissionContext :
        LET outcome == updateState(node, context)
            repeated == last.op = "updateState" /\ last.arg = context
        IN  /\ node' = outcome.node
            /\ last' = [Call("updateState", node.state, context, outcome.threw,
                             outcome.context)
                            EXCEPT !.repeated = repeated,
                                   !.prevThrew = repeated /\ last.threw]
            /\ UNCHANGED <<missionsVars, discoveryVars, shipVars, pagesVars>>

Equals ==
    \E other \in OtherNodes :
        /\ last' = Call("equals", node.state, other, FALSE, equals(node, other))
        /\ UNCHANGED <<node, missionsVars, discoveryVars, shipVars, pagesVars>>

Serialize ==
    /\ last' = Call("serialize", node.state, Null, FALSE, serialize(node))
    /\ UNCHANGED <<node, missionsVars, discoveryVars, shipVars, pagesVars>>

Deserialize ==
    \E m \in MissionFlyByNodeSerialized :
        /\ node' = deserialize(m)
        /\ last' = Call("deserialize", node.state, m, FALSE, Null)
        /\ UNCHANGED <<missionsVars, discoveryVars, shipVars, pagesVars>>

IsCompleted ==
    /\ last' = Call("isCompleted", node.state, Null, FALSE, isCompleted(node))
    /\ UNCHANGED <<node, missionsVars, discoveryVars, shipVars, pagesVars>>

GetTargetSystems ==
    /\ last' = Call("getTargetSystems", node.state, Null, FALSE, getTargetSystems(node))
    /\ UNCHANGED <<node, missionsVars, discoveryVars, shipVars, pagesVars>>

DescribeNextTask ==
    \E context \in DescribeContexts, keyboardLayout \in KeyboardLayouts :
        \E outcome \in describeNextTask(node, context, keyboardLayout) :
            /\ last' = Call("describeNextTask", node.state,
                            [context |-> context, keyboardLayout |-> keyboardLayout],
                            outcome.threw, outcome.text)
            /\ UNCHANGED <<node, missionsVars, discoveryVars, shipVars, pagesVars>>

\* describe(originSystemCoordinates), as a call on the node under
\* observation.
DescribeMission ==
    \E originSystemCoordinates \in StarSystemCoordinates :
        LET outcome == describe(node, originSystemCoordinates)
        IN  /\ last' = Call("describe", node.state, originSystemCoordinates,
                            outcome.threw, outcome.text)
            /\ UNCHANGED <<node, missionsVars, discoveryVars, shipVars, pagesVars>>

Next ==
    \/ SetState
    \/ UpdateState
    \/ Equals
    \/ Serialize
    \/ Deserialize
    \/ IsCompleted
    \/ GetTargetSystems
    \/ DescribeNextTask
    \/ DescribeMission

Spec == Init /\ [][Next]_vars

(***************************************************************************)
(* The mission offers: the page of a station is generated, a mission is    *)
(* described, time passes.  `generated` counts the star system models      *)
(* generated on the way.                                                   *)
(***************************************************************************)
GenerateMissionsDom ==
    \E stationModel \in OrbitalFacilityModels :
        LET dom == generateMissionsDom(stationModel, Player, clock)
        IN  /\ generated + dom.generations <= MaxGenerated
            /\ generated' = generated + dom.generations
            /\ missions' =
                  [call |-> dom,
                   repeated |-> /\ missions # Null
                                /\ missions.call.stationModel = stationModel,
                   later |-> /\ missions # Null
                             /\ missions.call.timestamp < clock,
                   sameHour |-> /\ missions # Null
                                /\ hourBucket(missions.call.timestamp) = hourBucket(clock)]
            /\ UNCHANGED <<node, last, clock, described, discoveryVars, shipVars, pagesVars>>

Describe ==
    \E originSystemCoordinates \in StarSystemCoordinates :
        LET outcome == describe(node, originSystemCoordinates)
        IN  /\ generated + 1 <= MaxGenerated
            /\ \E generations \in outcome.generations :
                  generated' = generated + generations
            /\ described' = [objectId |-> node.objectId,
                             originSystemCoordinates |-> originSystemCoordinates,
                             threw |-> outcome.threw,
                             text |-> outcome.text,
                             systemModel |-> outcome.systemModel]
            /\ UNCHANGED <<node, last, clock, missions, discoveryVars, shipVars, pagesVars>>

Tick ==
    /\ clock < MaxClock
    /\ clock' = clock + 1
    /\ UNCHANGED <<node, last, generated, missions, described, discoveryVars, shipVars, pagesVars>>

\* The missions that are described: one whose target is an object of its
\* system, one whose target names no object.
InitMissions ==
    \E objectId \in {id \in UniverseObjectId :
                        /\ id.starSystemCoordinates = [starSectorX |-> 0, localX |-> 1]
                        /\ id.objectIndex \in {1, MaxObjectIndex}} :
        /\ node = MissionFlyByNode(objectId)
        /\ last = Call("constructor", NOT_IN_SYSTEM, objectId, FALSE, Null)
        /\ clock = 0
        /\ generated = 0
        /\ missions = Null
        /\ described = Null
        /\ NewDiscoveryDetails
        /\ runs = <<>>
        /\ NewSpaceship

NextMissions ==
    \/ GenerateMissionsDom
    \/ Describe
    \/ Tick

SpecMissions == InitMissions /\ [][NextMissions]_vars

(***************************************************************************)
(* The discovery panel.  A call of setDiscovery runs up to its await in    *)
(* one step; a click on the sell button runs up to its await in one step;  *)
(* each estimate arrives in a step of its own, in any order, and the rest  *)
(* of its handler runs with it.                                            *)
(***************************************************************************)
SetDiscovery ==
    \E discovery \in SpaceDiscoveryData \cup {Null} :
        LET sellable == /\ discovery # Null
                        /\ includes(playerState.discoveries.local, discovery)
        IN  /\ sellable => Len(pendingLabels) < MaxPendingLabels
            /\ currentDiscovery' = discovery
            /\ sellDiscoveryButton' = [sellDiscoveryButton EXCEPT !.displayed = sellable]
            /\ pendingLabels' = IF sellable
                                THEN Append(pendingLabels, [discovery |-> discovery])
                                ELSE pendingLabels
            /\ UNCHANGED <<playerState, pendingSells, lastSale>>
            /\ UNCHANGED <<node, last, missionsVars, shipVars, pagesVars>>

ClickSell ==
    /\ sellDiscoveryButton.displayed
    /\ currentDiscovery # Null
    /\ Len(playerState.discoveries.uploaded) + Len(pendingSells) < MaxUploaded
    /\ pendingSells' =
          Append(pendingSells,
                 [awaited |-> currentDiscovery,
                  localAtClick |-> playerState.discoveries.local])
    /\ UNCHANGED <<currentDiscovery, sellDiscoveryButton, playerState, pendingLabels,
                   lastSale>>
    /\ UNCHANGED <<node, last, missionsVars, shipVars, pagesVars>>

SellEstimateArrives ==
    \E i \in DOMAIN pendingSells :
        LET sale == pendingSells[i]
            value == estimateDiscovery(sale.awaited.objectId)
            sold == soldDiscovery(sale, currentDiscovery)
        IN  /\ playerState' =
                  [balance |-> playerState.balance + value,
                   discoveries |->
                      [local |-> without(playerState.discoveries.local, sold),
                       uploaded |-> Append(playerState.discoveries.uploaded, sold)]]
            /\ lastSale' = [awaited |-> sale.awaited,
                            value |-> value,
                            sold |-> sold,
                            localAtClick |-> sale.localAtClick,
                            paidBefore |->
                                /\ lastSale # Null
                                /\ lastSale.awaited = sale.awaited]
            /\ pendingSells' = RemoveAt(pendingSells, i)
            /\ currentDiscovery' = Null
            /\ sellDiscoveryButton' = [sellDiscoveryButton EXCEPT !.displayed = FALSE]
            /\ UNCHANGED pendingLabels
            /\ UNCHANGED <<node, last, missionsVars, shipVars, pagesVars>>

LabelEstimateArrives ==
    \E i \in DOMAIN pendingLabels :
        /\ sellDiscoveryButton' =
              labelAfterEstimate(sellDiscoveryButton, pendingLabels[i], currentDiscovery)
        /\ pendingLabels' = RemoveAt(pendingLabels, i)
        /\ UNCHANGED <<currentDiscovery, playerState, pendingSells, lastSale>>
        /\ UNCHANGED <<node, last, missionsVars, shipVars, pagesVars>>

InitDiscovery ==
    /\ node = MissionFlyByNode([starSystemCoordinates |-> [starSectorX |-> 0, localX |-> 0],
                                objectIndex |-> 0])
    /\ last = Call("constructor", NOT_IN_SYSTEM, node.objectId, FALSE, Null)
    /\ clock = 0
    /\ generated = 0
    /\ missions = Null
    /\ described = Null
    /\ NewDiscoveryDetails
    /\ runs = <<>>
    /\ NewSpaceship

NextDiscovery ==
    \/ SetDiscovery
    \/ ClickSell
    \/ SellEstimateArrives
    \/ LabelEstimateArrives

SpecDiscovery == InitDiscovery /\ [][NextDiscovery]_vars

(***************************************************************************)
(* The spaceship: one action per method called on it, and one for its      *)
(* motion relative to the nearest celestial body.  A ship near a body can  *)
(* also be put on a landing pad and take off from it.                      *)
(***************************************************************************)
Update ==
    \E deltaSeconds \in {1}, fuelToBurn \in 0..MaxFuelPerTick,
       canEngage \in IF WarpDrive_isEnabled(ship.warpDrive) THEN BOOLEAN ELSE {TRUE},
       disengaged \in IF ship.warpDrive.state = "DISENGAGING" THEN BOOLEAN ELSE {FALSE},
       nearPad \in IF ship.targetLandingPad # Null /\ ship.state # LANDED
                   THEN BOOLEAN ELSE {FALSE},
       rayHit \in IF ship.landingTarget # Null THEN BOOLEAN ELSE {FALSE},
       displacement \in IF ship.nearestCelestialBody # Null THEN {-1, 0, 1} ELSE {0} :
        \E padReached \in IF nearPad THEN BOOLEAN ELSE {FALSE},
           touchedDown \in IF rayHit THEN BOOLEAN ELSE {FALSE} :
        \E tick \in {UpdateInputs(canEngage, disengaged, nearPad, padReached, rayHit,
                                  touchedDown, displacement, fuelToBurn)} :
        \E outcome \in {update(ship, deltaSeconds, tick)} :
            /\ displacement # 0 => outcome.moved
            /\ ship.nearestCelestialBody # Null =>
                  outcome.ship.distanceToBody \in ScoopDistances
            /\ ship' = outcome.ship
            /\ shipLast' = ShipCall("update", ship, tick, outcome.threw,
                                    [remaining |-> outcome.remaining,
                                     burned |-> outcome.burned,
                                     translated |-> outcome.translated,
                                     moved |-> outcome.moved],
                                    outcome.notified)
            /\ UNCHANGED <<node, last, missionsVars, discoveryVars, pagesVars>>

BurnFuel ==
    \E amount \in 0..MaxAmount :
        LET outcome == burnFuel(ship, amount)
        IN  /\ ship' = outcome.ship
            /\ shipLast' = ShipCall("burnFuel", ship, [amount |-> amount], outcome.threw,
                                    outcome.result, <<>>)
            /\ UNCHANGED <<node, last, missionsVars, discoveryVars, pagesVars>>

Refuel ==
    \E amount \in 0..MaxAmount :
        LET outcome == refuel(ship, amount)
        IN  /\ ship' = outcome.ship
            /\ shipLast' = ShipCall("refuel", ship, [amount |-> amount], outcome.threw,
                                    outcome.result, <<>>)
            /\ UNCHANGED <<node, last, missionsVars, discoveryVars, pagesVars>>

SetNearestCelestialBody ==
    \E celestialBody \in CelestialBodies, distance \in ScoopDistances :
        /\ ship' = [ship EXCEPT !.nearestCelestialBody = celestialBody,
                                !.distanceToBody = distance]
        /\ shipLast' = ShipCall("setNearestCelestialBody", ship, celestialBody, FALSE,
                                Null, <<>>)
        /\ UNCHANGED <<node, last, missionsVars, discoveryVars, pagesVars>>

Move ==
    \E distance \in ScoopDistances :
        /\ ship.nearestCelestialBody # Null
        /\ distance # ship.distanceToBody
        /\ ship' = [ship EXCEPT !.distanceToBody = distance]
        /\ shipLast' = ShipCall("move", ship, [distance |-> distance], FALSE, Null, <<>>)
        /\ UNCHANGED <<node, last, missionsVars, discoveryVars, pagesVars>>

EnableWarpDrive ==
    LET outcome == enableWarpDrive(ship)
    IN  /\ ship' = outcome.ship
        /\ shipLast' = ShipCall("enableWarpDrive", ship, Null, FALSE, Null,
                                outcome.notified)
        /\ UNCHANGED <<node, last, missionsVars, discoveryVars, pagesVars>>

SetMainEngineThrottle ==
    \E throttle \in {0, FullThrottle} :
        /\ ship' = [ship EXCEPT !.mainEngineThrottle = throttle]
        /\ shipLast' = ShipCall("setMainEngineThrottle", ship, [throttle |-> throttle],
                                FALSE, Null, <<>>)
        /\ UNCHANGED <<node, last, missionsVars, discoveryVars, pagesVars>>

IncreaseMainEngineThrottle ==
    \E delta \in {-FullThrottle, -1, 2} :
        /\ ship' = increaseMainEngineThrottle(ship, delta)
        /\ shipLast' = ShipCall("increaseMainEngineThrottle", ship, [delta |-> delta],
                                FALSE, Null, <<>>)
        /\ UNCHANGED <<node, last, missionsVars, discoveryVars, pagesVars>>

\* The landing pads of a station.
LandingPads == {[name |-> "pad"]}

SpawnOnPad ==
    \E landingPad \in LandingPads,
       distanceOfPad \in IF ship.nearestCelestialBody # Null THEN ScoopDistances
                         ELSE {ship.distanceToBody} :
        LET outcome == spawnOnPad(ship, landingPad, distanceOfPad)
        IN  /\ ship' = outcome.ship
            /\ shipLast' = ShipCall("spawnOnPad", ship,
                                    [landingPad |-> landingPad,
                                     distanceOfPad |-> distanceOfPad],
                                    FALSE, Null, outcome.notified)
            /\ UNCHANGED <<node, last, missionsVars, discoveryVars, pagesVars>>

TakeOff ==
    LET outcome == takeOff(ship)
    IN  /\ ship' = outcome.ship
        /\ shipLast' = ShipCall("takeOff", ship, Null, FALSE, Null, outcome.notified)
        /\ UNCHANGED <<node, last, missionsVars, discoveryVars, pagesVars>>

InitShip ==
    /\ node = MissionFlyByNode([starSystemCoordinates |-> [starSectorX |-> 0, localX |-> 0],
                                objectIndex |-> 0])
    /\ last = Call("constructor", NOT_IN_SYSTEM, node.objectId, FALSE, Null)
    /\ clock = 0
    /\ generated = 0
    /\ missions = Null
    /\ described = Null
    /\ NewDiscoveryDetails
    /\ runs = <<>>
    /\ \E serializedSpaceShip \in SerializedSpaceships :
          ship = Spaceship(serializedSpaceShip.fuelTanks, serializedSpaceShip.fuelScoop)
    /\ shipLast = ShipCall("constructor", Null, Null, FALSE, Null, <<>>)

NextShip ==
    \/ Update
    \/ BurnFuel
    \/ Refuel
    \/ SetNearestCelestialBody
    \/ Move
    \/ EnableWarpDrive
    \/ SetMainEngineThrottle
    \/ SpawnOnPad
    \/ TakeOff

SpecShip == InitShip /\ [][NextShip]_vars

(***************************************************************************)
(* The spaceship again: its warp drive, its main engine throttle and its   *)
(* landings.  The ship has no fuel scoop; what it is asked to land on is a *)
(* planet or a landing pad.                                                *)
(***************************************************************************)
WalkableObjects == {[name |-> "planet"]}

DisableWarpDrive ==
    LET outcome == disableWarpDrive(ship)
    IN  /\ ship' = outcome.ship
        /\ shipLast' = ShipCall("disableWarpDrive", ship, Null, FALSE, Null,
                                outcome.notified)
        /\ UNCHANGED <<node, last, missionsVars, discoveryVars, pagesVars>>

EmergencyStopWarpDrive ==
    LET outcome == emergencyStopWarpDrive(ship)
    IN  /\ ship' = outcome.ship
        /\ shipLast' = ShipCall("emergencyStopWarpDrive", ship, Null, FALSE, Null,
                                outcome.notified)
        /\ UNCHANGED <<node, last, missionsVars, discoveryVars, pagesVars>>

ToggleWarpDrive ==
    LET outcome == toggleWarpDrive(ship)
    IN  /\ ship' = outcome.ship
        /\ shipLast' = ShipCall("toggleWarpDrive", ship, Null, FALSE, Null,
                                outcome.notified)
        /\ UNCHANGED <<node, last, missionsVars, discoveryVars, pagesVars>>

SetClosestWalkableObject ==
    \E object \in WalkableObjects :
        /\ ship.closestWalkableObject # object
        /\ ship' = [ship EXCEPT !.closestWalkableObject = object]
        /\ shipLast' = ShipCall("setClosestWalkableObject", ship, object, FALSE, Null,
                                <<>>)
        /\ UNCHANGED <<node, last, missionsVars, discoveryVars, pagesVars>>

EngagePlanetaryLanding ==
    \E landingTarget \in WalkableObjects \cup {Null} :
        LET outcome == engagePlanetaryLanding(ship, landingTarget)
        IN  /\ ship' = outcome.ship
            /\ shipLast' = ShipCall("engagePlanetaryLanding", ship, landingTarget,
                                    outcome.threw, Null, outcome.notified)
            /\ UNCHANGED <<node, last, missionsVars, discoveryVars, pagesVars>>

EngageLandingOnPad ==
    \E landingPad \in LandingPads :
        /\ ship' = engageLandingOnPad(ship, landingPad)
        /\ shipLast' = ShipCall("engageLandingOnPad", ship, landingPad, FALSE, Null, <<>>)
        /\ UNCHANGED <<node, last, missionsVars, discoveryVars, pagesVars>>

CancelLanding ==
    LET outcome == cancelLanding(ship)
    IN  /\ ship' = outcome.ship
        /\ shipLast' = ShipCall("cancelLanding", ship, Null, FALSE, Null, outcome.notified)
        /\ UNCHANGED <<node, last, missionsVars, discoveryVars, pagesVars>>

InitLanding ==
    /\ node = MissionFlyByNode([starSystemCoordinates |-> [starSectorX |-> 0, localX |-> 0],
                                objectIndex |-> 0])
    /\ last = Call("constructor", NOT_IN_SYSTEM, node.objectId, FALSE, Null)
    /\ clock = 0
    /\ generated = 0
    /\ missions = Null
    /\ described = Null
    /\ NewDiscoveryDetails
    /\ runs = <<>>
    /\ \E serializedSpaceShip \in SerializedSpaceships :
          /\ serializedSpaceShip.fuelScoop = Null
          /\ ship = Spaceship(serializedSpaceShip.fuelTanks, serializedSpaceShip.fuelScoop)
    /\ shipLast = ShipCall("constructor", Null, Null, FALSE, Null, <<>>)

NextLanding ==
    \/ Update
    \/ EnableWarpDrive
    \/ DisableWarpDrive
    \/ EmergencyStopWarpDrive
    \/ ToggleWarpDrive
    \/ SetClosestWalkableObject
    \/ EngagePlanetaryLanding
    \/ EngageLandingOnPad
    \/ CancelLanding
    \/ SpawnOnPad
    \/ TakeOff
    \/ IncreaseMainEngineThrottle

SpecLanding == InitLanding /\ [][NextLanding]_vars

(***************************************************************************)
(* The Pages deployment workflow (.github/workflows): its runs under the   *)
(* concurrency setting of the file.  A run is triggered by the push of a   *)
(* tag or by hand; it is pending, in progress, completed or cancelled.     *)
(* All runs of the workflow are in the one concurrency group.  A new run   *)
(* starts at once when no run of the group is in progress.  Otherwise,     *)
(* with cancel-in-progress false, it is pending and takes the place of the *)
(* pending run of the group, which is cancelled; with cancel-in-progress   *)
(* true, the run in progress is cancelled and the new run starts.  When    *)
(* the run in progress ends, the pending run starts.                       *)
(***************************************************************************)
ConcurrencyGroup == "pages"

\* cancel-in-progress: a variant that sets it.
cancelInProgress_True == TRUE

cancelInProgress == FALSE

\* on: push of a tag, workflow_dispatch
Events == {"push", "workflow_dispatch"}

Run(event, status) == [event |-> event, group |-> ConcurrencyGroup, status |-> status]

RunsWith(status) == {i \in DOMAIN runs : runs[i].status = status}

\* What the queueing of a run in the group does to the runs before it.
displaced(run, busy) ==
    IF busy /\ cancelInProgress /\ run.status \in {"in_progress", "pending"}
    THEN [run EXCEPT !.status = "cancelled"]
    ELSE IF busy /\ ~cancelInProgress /\ run.status = "pending"
    THEN [run EXCEPT !.status = "cancelled"]
    ELSE run

Trigger ==
    \E event \in Events :
        LET busy == RunsWith("in_progress") # {}
        IN  /\ Len(runs) < MaxRuns
            /\ runs' = Append([i \in DOMAIN runs |-> displaced(runs[i], busy)],
                              Run(event, IF busy /\ ~cancelInProgress
                                         THEN "pending" ELSE "in_progress"))
            /\ UNCHANGED <<node, last, missionsVars, discoveryVars, shipVars>>

\* The run in progress ends, with success or not (a failed step, the
\* timeout of the job); the pending run of the group starts.
Finish ==
    \E i \in RunsWith("in_progress"), conclusion \in {"success", "failure"} :
        /\ runs' = [j \in DOMAIN runs |->
                        IF j = i THEN [runs[j] EXCEPT !.status = conclusion]
                        ELSE IF runs[j].status = "pending"
                        THEN [runs[j] EXCEPT !.status = "in_progress"]
                        ELSE runs[j]]
        /\ UNCHANGED <<node, last, missionsVars, discoveryVars, shipVars>>

InitPages ==
    /\ node = MissionFlyByNode([starSystemCoordinates |-> [starSectorX |-> 0, localX |-> 0],
                                objectIndex |-> 0])
    /\ last = Call("constructor", NOT_IN_SYSTEM, node.objectId, FALSE, Null)
    /\ clock = 0
    /\ generated = 0
    /\ missions = Null
    /\ described = Null
    /\ NewDiscoveryDetails
    /\ NewSpaceship
    /\ runs = <<>>

NextPages ==
    \/ Trigger
    \/ Finish

SpecPages == InitPages /\ [][NextPages]_vars

(***************************************************************************)
(* What the claims speak of, read off the last call.                       *)
(***************************************************************************)
Updated == last.op = "updateState"

\* The context of the last updateState call is in the node's target system.
InTargetSystem ==
    last.arg.currentSystem.model.coordinates = node.objectId.starSystemCoordinates

\* The live object the node targets, in the system of the last call.
TargetObject == getObjectBySystemId(node.objectId, last.arg.currentSystem)

\* The last updateState call evaluated the player's distance to the target.
Evaluated ==
    /\ Updated
    /\ last.before # CLOSE_ENOUGH
    /\ InTargetSystem
    /\ TargetObject # Null

TargetDistanceSquared == DistanceSquared(last.arg.playerPosition, TargetObject.position)

(***************************************************************************)
(* C1: once the state is CLOSE_ENOUGH, every updateState call, whatever    *)
(* its context, leaves the state CLOSE_ENOUGH and the node completed.      *)
(***************************************************************************)
C1_StickyCompletion ==
    [][(last'.op = "updateState" /\ node.state = CLOSE_ENOUGH)
          => (node'.state = CLOSE_ENOUGH /\ isCompleted(node'))]_vars

\* A completed node was updated in its own system with the player far from
\* the target, and is still completed.
C1_Witness ==
    /\ Updated
    /\ last.before = CLOSE_ENOUGH
    /\ InTargetSystem
    /\ TargetObject # Null
    /\ TargetDistanceSquared = FarDistance * FarDistance
    /\ node.state = CLOSE_ENOUGH

(***************************************************************************)
(* C2, as the claim states it: for a STAR of bounding radius R, an         *)
(* evaluated update at distance 2.9 R gives TOO_FAR_IN_SYSTEM and one at   *)
(* distance 3.1 R gives CLOSE_ENOUGH.                                      *)
(***************************************************************************)
C2_AsClaimed ==
    (Evaluated /\ TargetObject.model.type = "STAR") =>
        LET R == TargetObject.boundingRadius
        IN  /\ 100 * TargetDistanceSquared = 29 * 29 * R * R
                => node.state = TOO_FAR_IN_SYSTEM
            /\ 100 * TargetDistanceSquared = 31 * 31 * R * R
                => node.state = CLOSE_ENOUGH

(***************************************************************************)
(* C2, amended: for a STAR of bounding radius R, an evaluated update at    *)
(* distance 2.9 R gives CLOSE_ENOUGH and one at distance 3.1 R gives       *)
(* TOO_FAR_IN_SYSTEM.                                                      *)
(***************************************************************************)
C2_StarThreshold ==
    (Evaluated /\ TargetObject.model.type = "STAR") =>
        LET R == TargetObject.boundingRadius
        IN  /\ 100 * TargetDistanceSquared = 29 * 29 * R * R
                => node.state = CLOSE_ENOUGH
            /\ 100 * TargetDistanceSquared = 31 * 31 * R * R
                => node.state = TOO_FAR_IN_SYSTEM

\* A star of radius 20 was flown by at distance 58 = 2.9 * 20.
C2_Witness ==
    /\ Evaluated
    /\ TargetObject.model.type = "STAR"
    /\ TargetObject.boundingRadius = 20
    /\ 100 * TargetDistanceSquared = 29 * 29 * 20 * 20
    /\ node.state = CLOSE_ENOUGH

(***************************************************************************)
(* C3, as the claim states it: an update in a system other than the        *)
(* target's leaves the state NOT_IN_SYSTEM, whatever the state was before. *)
(***************************************************************************)
C3_AsClaimed ==
    (Updated /\ ~InTargetSystem) => node.state = NOT_IN_SYSTEM

(***************************************************************************)
(* C3, amended: an update in a system other than the target's leaves a     *)
(* node that was not completed in NOT_IN_SYSTEM, whatever the player's     *)
(* distance, and leaves a completed node in CLOSE_ENOUGH.                  *)
(***************************************************************************)
C3_WrongSystem ==
    (Updated /\ ~InTargetSystem) =>
        node.state = IF last.before = CLOSE_ENOUGH THEN CLOSE_ENOUGH
                                                   ELSE NOT_IN_SYSTEM

\* A node that was TOO_FAR_IN_SYSTEM was updated in another system.
C3_Witness ==
    /\ Updated
    /\ ~InTargetSystem
    /\ last.before = TOO_FAR_IN_SYSTEM
    /\ node.state = NOT_IN_SYSTEM

(***************************************************************************)
(* C4: an evaluated update gives CLOSE_ENOUGH exactly when the distance is *)
(* below boundingRadius * multiplier(type), with multiplier 3 for STAR,    *)
(* TELLURIC_PLANET, TELLURIC_SATELLITE, GAS_PLANET, MANDELBULB, JULIA_SET, *)
(* SPACE_STATION and SPACE_ELEVATOR, 50 for NEUTRON_STAR, 10 for           *)
(* BLACK_HOLE and 1 for any other type; otherwise TOO_FAR_IN_SYSTEM.       *)
(***************************************************************************)
C4_Multiplier(type) ==
    IF type \in {"STAR", "TELLURIC_PLANET", "TELLURIC_SATELLITE", "GAS_PLANET",
                 "MANDELBULB", "JULIA_SET", "SPACE_STATION", "SPACE_ELEVATOR"}
    THEN 3
    ELSE IF type = "NEUTRON_STAR" THEN 50
    ELSE IF type = "BLACK_HOLE" THEN 10
    ELSE 1

C4_ThresholdTable ==
    Evaluated =>
        LET threshold ==
                TargetObject.boundingRadius * C4_Multiplier(TargetObject.model.type)
        IN  node.state = IF TargetDistanceSquared < threshold * threshold
                         THEN CLOSE_ENOUGH ELSE TOO_FAR_IN_SYSTEM

\* A neutron star of radius 1 was flown by at distance 49, inside 50 * 1.
C4_Witness ==
    /\ Evaluated
    /\ TargetObject.model.type = "NEUTRON_STAR"
    /\ TargetDistanceSquared = 49 * 49
    /\ node.state = CLOSE_ENOUGH

(***************************************************************************)
(* C5: deserializing a fly-by record m and serializing the node gives      *)
(* type FLY_BY, no children, and the objectId and state of m; and          *)
(* deserialize(serialize(deserialize(m))) = deserialize(m).                *)
(***************************************************************************)
C5_RoundTrip ==
    last.op = "deserialize" =>
        /\ serialize(node) = [type |-> "FLY_BY",
                              children |-> <<>>,
                              objectId |-> last.arg.objectId,
                              state |-> last.arg.state]
        /\ deserialize(serialize(node)) = node

\* A record of a mission in progress was loaded.
C5_Witness ==
    /\ last.op = "deserialize"
    /\ last.arg.state = TOO_FAR_IN_SYSTEM
    /\ node.state = TOO_FAR_IN_SYSTEM
    /\ node.objectId = last.arg.objectId

(***************************************************************************)
(* C6: a second updateState call with the context of the call before it    *)
(* leaves the node in the state, and with the isCompleted value, the       *)
(* first call left.                                                        *)
(***************************************************************************)
C6_Idempotent ==
    (Updated /\ last.repeated) =>
        /\ node.state = last.before
        /\ isCompleted(node) = (last.before = CLOSE_ENOUGH)

\* The same context was evaluated twice, the player too far both times.
C6_Witness ==
    /\ Evaluated
    /\ last.repeated
    /\ ~last.prevThrew
    /\ node.state = TOO_FAR_IN_SYSTEM

(***************************************************************************)
(* C7: updateState throws exactly when the node is not completed, the      *)
(* current system is the target system and the target is not found in it;  *)
(* the error leaves the call with the node's state untouched.              *)
(***************************************************************************)
C7_ThrowsExactlyWhen ==
    Updated =>
        /\ last.threw <=> /\ last.before # CLOSE_ENOUGH
                          /\ InTargetSystem
                          /\ TargetObject = Null
        /\ last.threw => node.state = last.before

\* An update in the target system found no object at the node's index.
C7_Witness ==
    /\ Updated
    /\ last.threw
    /\ InTargetSystem
    /\ node.objectId.objectIndex = MaxObjectIndex

(***************************************************************************)
(* C8: when updateState throws, the node's state is the one before the     *)
(* call; and the same call made again throws again, the state unchanged.   *)
(***************************************************************************)
C8_ThrowKeepsState ==
    Updated =>
        /\ last.threw => node.state = last.before
        /\ (last.repeated /\ last.prevThrew) =>
                (last.threw /\ node.state = last.before)

\* A throwing update was repeated with the same context on a node in
\* progress, which threw again.
C8_Witness ==
    /\ Updated
    /\ last.repeated
    /\ last.prevThrew
    /\ last.threw
    /\ node.state = TOO_FAR_IN_SYSTEM

(***************************************************************************)
(* C9: equals(a, b) is true exactly when b is a fly-by node whose objectId *)
(* has the coordinates and the object index of a's; it is reflexive and    *)
(* symmetric, and the progress state of neither node changes it.           *)
(***************************************************************************)
C9_Equals ==
    last.op = "equals" =>
        LET other == last.arg
        IN  /\ last.result = (/\ other.kind = "MissionFlyByNode"
                              /\ other.objectId = node.objectId)
            /\ equals(node, node)
            /\ other.kind = "MissionFlyByNode" => equals(other, node) = last.result
            /\ \A s \in FlyByState :
                    equals(setState(node, s), setState(other, s)) = last.result

\* A fly-by node was compared with one that targets another object of the
\* same system, and with a different progress.
C9_Witness ==
    /\ last.op = "equals"
    /\ last.arg.kind = "MissionFlyByNode"
    /\ last.arg.objectId.starSystemCoordinates = node.objectId.starSystemCoordinates
    /\ last.arg.objectId.objectIndex # node.objectId.objectIndex
    /\ last.arg.state # node.state
    /\ last.result = FALSE

(***************************************************************************)
(* C10, as the claim states it: after updateState on a node that was not   *)
(* completed, the state is the one every other non-completed prior state   *)
(* would have led to under the same context.                               *)
(***************************************************************************)
NotCompletedStates == {NOT_IN_SYSTEM, TOO_FAR_IN_SYSTEM}

C10_AsClaimed ==
    (Updated /\ last.before # CLOSE_ENOUGH) =>
        \A s \in NotCompletedStates :
            updateState(setState(node, s), last.arg).node.state = node.state

(***************************************************************************)
(* C10, what the code does: after an updateState that returns on a node   *)
(* that was not completed, the state is NOT_IN_SYSTEM outside the target   *)
(* system and otherwise CLOSE_ENOUGH or TOO_FAR_IN_SYSTEM by the distance  *)
(* against boundingRadius * multiplier(type), and every other              *)
(* non-completed prior state leads to the same state; when updateState     *)
(* throws, as it does for a target that names no object of its system,     *)
(* every non-completed prior state throws and is kept.                     *)
(***************************************************************************)
C10_ContextDetermines ==
    (Updated /\ last.before # CLOSE_ENOUGH) =>
        /\ ~last.threw =>
              node.state =
                  IF ~InTargetSystem THEN NOT_IN_SYSTEM
                  ELSE LET threshold == TargetObject.boundingRadius
                                          * C4_Multiplier(TargetObject.model.type)
                       IN  IF TargetDistanceSquared < threshold * threshold
                           THEN CLOSE_ENOUGH ELSE TOO_FAR_IN_SYSTEM
        /\ \A s \in NotCompletedStates :
              LET outcome == updateState(setState(node, s), last.arg)
              IN  IF last.threw
                  THEN outcome.threw /\ outcome.node.state = s
                  ELSE ~outcome.threw /\ outcome.node.state = node.state

\* A node that was TOO_FAR_IN_SYSTEM was updated outside its target system.
C10_Witness ==
    /\ Updated
    /\ last.before = TOO_FAR_IN_SYSTEM
    /\ ~last.threw
    /\ ~InTargetSystem
    /\ node.state = NOT_IN_SYSTEM
    /\ updateState(setState(node, NOT_IN_SYSTEM), last.arg).node.state = NOT_IN_SYSTEM

(***************************************************************************)
(* C11: isCompleted() is true exactly when the state is CLOSE_ENOUGH; the  *)
(* target of the node does not change it; a node just constructed is not   *)
(* completed.                                                              *)
(***************************************************************************)
C11_IsCompleted ==
    /\ last.op = "isCompleted" =>
          /\ last.result = (node.state = CLOSE_ENOUGH)
          /\ \A id \in UniverseObjectId :
                isCompleted(setState(MissionFlyByNode(id), node.state)) = last.result
    /\ last.op = "constructor" => (node.state = NOT_IN_SYSTEM /\ ~isCompleted(node))

\* isCompleted() was asked of a node in CLOSE_ENOUGH and answered true.
C11_Witness ==
    /\ last.op = "isCompleted"
    /\ node.state = CLOSE_ENOUGH
    /\ last.result = TRUE

(***************************************************************************)
(* C12: updateState changes nothing of the node but its state: objectId    *)
(* and targetSystemCoordinates are kept, targetSystemCoordinates is always *)
(* objectId.starSystemCoordinates, and the context is left as it was       *)
(* passed.                                                                 *)
(***************************************************************************)
C12_UpdateStateFrame ==
    [][last'.op = "updateState" =>
          /\ node'.objectId = node.objectId
          /\ node'.targetSystemCoordinates = node.targetSystemCoordinates
          /\ node'.targetSystemCoordinates = node'.objectId.starSystemCoordinates
          /\ node'.kind = node.kind
          /\ last'.result = last'.arg]_vars

\* An update changed the state of a node, which still targets the system
\* of its objectId, under a context that is as it was passed.
C12_Witness ==
    /\ Updated
    /\ last.before = TOO_FAR_IN_SYSTEM
    /\ node.state = NOT_IN_SYSTEM
    /\ node.targetSystemCoordinates = node.objectId.starSystemCoordinates
    /\ last.result = last.arg

(***************************************************************************)
(* C13, as the claim states it: describeNextTask returns the completed     *)
(* text in CLOSE_ENOUGH, the go-to-system instructions in NOT_IN_SYSTEM    *)
(* and the get-closer text naming the target in TOO_FAR_IN_SYSTEM; every   *)
(* state gives one of the three.                                           *)
(***************************************************************************)
C13_ExpectedText ==
    CASE node.state = CLOSE_ENOUGH -> i18n_t("missions:flyBy:missionCompleted", Null)
      [] node.state = NOT_IN_SYSTEM ->
            i18n_t("missions:common:goToSystem",
                   [currentSystem |-> last.arg.context.currentSystem.model.coordinates,
                    targetSystem |-> node.objectId.starSystemCoordinates,
                    keyboardLayout |-> last.arg.keyboardLayout])
      [] node.state = TOO_FAR_IN_SYSTEM ->
            i18n_t("missions:common:getCloserToTarget",
                   [objectName |-> [system |-> node.objectId.starSystemCoordinates,
                                    index |-> node.objectId.objectIndex]])

C13_AsClaimed ==
    last.op = "describeNextTask" => (~last.threw /\ last.result = C13_ExpectedText)

(***************************************************************************)
(* C13, what the code does: describeNextTask returns the completed text   *)
(* whenever the state is CLOSE_ENOUGH; for a node whose objectId names an  *)
(* object of its system it returns the go-to-system instructions in        *)
(* NOT_IN_SYSTEM and the get-closer text naming the target in              *)
(* TOO_FAR_IN_SYSTEM; whenever it returns, the text is the one of the      *)
(* stored state; for a node whose objectId names no object, it raises in   *)
(* TOO_FAR_IN_SYSTEM.                                                      *)
(***************************************************************************)
C13_Resolves == getObjectModelByUniverseId(node.objectId) # Null

C13_TextByState ==
    last.op = "describeNextTask" =>
        /\ ~last.threw => last.result = C13_ExpectedText
        /\ (node.state = CLOSE_ENOUGH \/ C13_Resolves) => ~last.threw
        /\ (node.state = TOO_FAR_IN_SYSTEM /\ ~C13_Resolves) => last.threw

\* The next task was asked of a node in TOO_FAR_IN_SYSTEM whose objectId
\* names no object, and the call raised instead of returning a text.
C13_Witness ==
    /\ last.op = "describeNextTask"
    /\ node.state = TOO_FAR_IN_SYSTEM
    /\ ~C13_Resolves
    /\ last.threw

(***************************************************************************)
(* C14: getTargetSystems() returns a list of exactly one element, the      *)
(* coordinates in the node's objectId, in every state of the node.         *)
(***************************************************************************)
C14_TargetSystems ==
    /\ getTargetSystems(node) = <<node.objectId.starSystemCoordinates>>
    /\ last.op = "getTargetSystems" =>
          /\ Len(last.result) = 1
          /\ last.result[1] = node.objectId.starSystemCoordinates

\* The targets of a completed node were asked for.
C14_Witness ==
    /\ last.op = "getTargetSystems"
    /\ node.state = CLOSE_ENOUGH
    /\ Len(last.result) = 1

(***************************************************************************)
(* C15, as the claim states it: the objectId of every node names an object *)
(* of the system at its coordinates.                                       *)
(***************************************************************************)
C15_Dangling ==
    getObjectBySystemId(node.objectId,
        StarSystemController(node.objectId.starSystemCoordinates)) = Null

C15_AsClaimed == ~C15_Dangling

(***************************************************************************)
(* C15, what the code does: the constructor and deserialization keep the   *)
(* objectId they are given, unresolved, so a node may name no object of    *)
(* its system; the node's target system is always the one of its objectId, *)
(* and an updateState in that system on such a node, not completed, raises *)
(* and leaves the state as it was.                                         *)
(***************************************************************************)
C15_DanglingDetected ==
    /\ node.targetSystemCoordinates = node.objectId.starSystemCoordinates
    /\ last.op = "constructor" => node.objectId = last.arg
    /\ last.op = "deserialize" => node.objectId = last.arg.objectId
    /\ (Updated /\ C15_Dangling /\ InTargetSystem /\ last.before # CLOSE_ENOUGH)
          => (last.threw /\ node.state = last.before)

\* A record naming no object was loaded as a node in progress.
C15_Witness ==
    /\ last.op = "deserialize"
    /\ C15_Dangling
    /\ node.state = TOO_FAR_IN_SYSTEM

(***************************************************************************)
(* What the claims speak of, read off the last page of missions.           *)
(***************************************************************************)
Offered == missions # Null

\* The positions of a sequence.
Indices(seq) == DOMAIN seq

\* p <= q, for two fractions of positive denominator.
FractionLeq(p, q) == p.num * q.den <= q.num * p.den

(***************************************************************************)
(* C16: the contact stations are listed in ascending order of distance:    *)
(* each entry's distance is at most that of the entry after it.            *)
(***************************************************************************)
C16_SortedByDistance ==
    Offered =>
        LET contactStations == missions.call.contactStations
        IN  \A i \in Indices(contactStations) :
                i + 1 \in Indices(contactStations) =>
                    contactStations[i].distance <= contactStations[i + 1].distance

\* A page whose contact stations came out of the filters in another order
\* than the one they are listed in.
C16_Witness ==
    /\ Offered
    /\ Len(missions.call.contactStations) >= 2
    /\ missions.call.filtered # missions.call.contactStations
    /\ missions.call.contactStations[1].distance
          < missions.call.contactStations[Len(missions.call.contactStations)].distance

(***************************************************************************)
(* C17: every contact station has the faction of the offering station and  *)
(* is one of the gathered neighbor stations, at the distance it was        *)
(* gathered with; no station of another faction is listed.                 *)
(***************************************************************************)
C17_SameFactionOnly ==
    Offered =>
        \A i \in Indices(missions.call.contactStations) :
            LET entry == missions.call.contactStations[i]
            IN  /\ entry.station.faction = missions.call.stationModel.faction
                /\ \E j \in Indices(missions.call.neighborSpaceStations) :
                      missions.call.neighborSpaceStations[j] = entry

\* A page that lists a contact station, while a neighbor station of another
\* faction passed the draw and is not listed.
C17_Witness ==
    /\ Offered
    /\ Len(missions.call.contactStations) >= 1
    /\ \E j \in Indices(missions.call.neighborSpaceStations) :
          /\ missions.call.draws[j].kept
          /\ missions.call.neighborSpaceStations[j].station.faction
                # missions.call.stationModel.faction

(***************************************************************************)
(* C18: the filtering is deterministic.  Two successive pages for the same *)
(* station seed and the same gathered list make the same draws and list    *)
(* the same contact stations, whatever the clock and whatever was          *)
(* generated in between; a candidate of the same seed, index and distance  *)
(* is kept in both or dropped in both.                                     *)
(***************************************************************************)
C18_Deterministic ==
    [][(Offered /\ missions' # Null
            /\ missions'.call.stationModel.seed = missions.call.stationModel.seed)
        =>
        /\ (missions'.call.neighborSpaceStations = missions.call.neighborSpaceStations)
              => /\ missions'.call.draws = missions.call.draws
                 /\ missions'.call.contactStations = missions.call.contactStations
        /\ \A i \in Indices(missions.call.draws), j \in Indices(missions'.call.draws) :
              (/\ missions.call.draws[i].index = missions'.call.draws[j].index
               /\ missions.call.neighborSpaceStations[i].distance
                     = missions'.call.neighborSpaceStations[j].distance)
                  => missions.call.draws[i].kept = missions'.call.draws[j].kept]_vars

\* The page of a station was generated again at a later time, with a
\* candidate kept and a candidate dropped.
C18_Witness ==
    /\ Offered
    /\ missions.repeated
    /\ missions.later
    /\ \E i, j \in Indices(missions.call.draws) :
          missions.call.draws[i].kept /\ ~missions.call.draws[j].kept

(***************************************************************************)
(* C19: the keep probability of a candidate at distance d is               *)
(* 1 / (1 + 0.02 * d * d), that is 50 / (50 + d * d): it is 1 at d = 0, it *)
(* lies in (0, 1], and it does not grow with the distance.  It is the      *)
(* probability of every draw a page makes, at step 325 + index.            *)
(***************************************************************************)
C19_KeepProbability ==
    /\ keepProbability(0).num = keepProbability(0).den
    /\ \A d \in 0..NeighborRadius :
          LET p == keepProbability(d)
          IN  /\ p.num * (50 + d * d) = 50 * p.den
              /\ 0 < p.num /\ p.num <= p.den
              /\ FractionLeq(keepProbability(d + 1), p)
    /\ Offered =>
          \A i \in Indices(missions.call.draws) :
              LET d == missions.call.neighborSpaceStations[i].distance
                  p == missions.call.draws[i].probability
              IN  /\ p.num * (50 + d * d) = 50 * p.den
                  /\ missions.call.draws[i].step = 325 + (i - 1)
                  /\ \A j \in Indices(missions.call.draws) :
                        d < missions.call.neighborSpaceStations[j].distance
                            => FractionLeq(missions.call.draws[j].probability, p)

\* A page drew for two candidates, the nearer one with the strictly greater
\* keep probability.
C19_Witness ==
    /\ Offered
    /\ \E i, j \in Indices(missions.call.draws) :
          /\ missions.call.neighborSpaceStations[i].distance
                < missions.call.neighborSpaceStations[j].distance
          /\ ~FractionLeq(missions.call.draws[i].probability,
                          missions.call.draws[j].probability)

(***************************************************************************)
(* C22: the queries isCompleted, equals, getTargetSystems, serialize,      *)
(* describe and describeNextTask leave the node's state and objectId as    *)
(* they were; the state of the node under observation changes only in      *)
(* updateState and setState (deserialization builds its node with          *)
(* setState); the record serialize returns carries the state of the node   *)
(* at the call.                                                            *)
(***************************************************************************)
QueryOperations ==
    {"isCompleted", "equals", "getTargetSystems", "serialize", "describe",
     "describeNextTask"}

C22_QueriesFrame ==
    [][/\ last'.op \in QueryOperations =>
            /\ node'.state = node.state
            /\ node'.objectId = node.objectId
            /\ last'.before = node.state
       /\ node'.state # node.state =>
            last'.op \in {"updateState", "setState", "deserialize"}
       /\ last'.op = "serialize" =>
            /\ last'.result.state = node.state
            /\ last'.result.state = node'.state]_vars

\* A node in progress was serialized: the record and the node agree on
\* TOO_FAR_IN_SYSTEM.
C22_Witness ==
    /\ last.op = "serialize"
    /\ last.before = TOO_FAR_IN_SYSTEM
    /\ last.result.state = TOO_FAR_IN_SYSTEM
    /\ node.state = TOO_FAR_IN_SYSTEM

(***************************************************************************)
(* C23, as the claim states it: the contact list holds no station of the   *)
(* offering station's faction.                                             *)
(***************************************************************************)
C23_AsClaimed ==
    Offered =>
        \A i \in Indices(missions.call.contactStations) :
            missions.call.contactStations[i].station.faction
                # missions.call.stationModel.faction

(***************************************************************************)
(* C23, what the code does: the second filter keeps the stations of the    *)
(* offering station's faction and drops all others, so the contact list    *)
(* is the stations that passed the draw and have that faction.  The        *)
(* comment above the filter says the opposite of its predicate.            *)
(***************************************************************************)
C23_KeepsSameFaction ==
    Offered =>
        /\ \A i \in Indices(missions.call.contactStations) :
              missions.call.contactStations[i].station.faction
                  = missions.call.stationModel.faction
        /\ \A j \in Indices(missions.call.neighborSpaceStations) :
              (/\ missions.call.draws[j].kept
               /\ missions.call.neighborSpaceStations[j].station.faction
                     = missions.call.stationModel.faction)
                  => \E i \in Indices(missions.call.contactStations) :
                        missions.call.contactStations[i]
                            = missions.call.neighborSpaceStations[j]
        /\ Len(missions.call.contactStations) = Len(missions.call.filtered)

\* A page lists two contact stations, both of the offering station's
\* faction.
C23_Witness ==
    /\ Offered
    /\ Len(missions.call.contactStations) >= 2
    /\ \A i \in Indices(missions.call.contactStations) :
          missions.call.contactStations[i].station.faction
              = missions.call.stationModel.faction

(***************************************************************************)
(* What the claims speak of, in the discovery panel.                       *)
(***************************************************************************)
\* A step in which the estimate of a sell click arrives.
SaleCompletes == Len(pendingSells') < Len(pendingSells)

\* A step in which the estimate of a setDiscovery call arrives.
LabelCompletes == Len(pendingLabels') < Len(pendingLabels)

Uploaded == playerState.discoveries.uploaded

Local == playerState.discoveries.local

(***************************************************************************)
(* C24, as the claim states it: no discovery is paid twice; a sale never   *)
(* pays the discovery the sale before it paid.                             *)
(***************************************************************************)
C24_AsClaimed == lastSale # Null => ~lastSale.paidBefore

(***************************************************************************)
(* C24, what the code does: every sell click whose estimate arrives is     *)
(* credited with the estimate of the discovery that was shown at the       *)
(* click, whether or not that discovery has been paid before.              *)
(***************************************************************************)
C24_EveryClickPays ==
    [][SaleCompletes =>
          /\ lastSale'.value = estimateDiscovery(lastSale'.awaited.objectId)
          /\ playerState'.balance = playerState.balance + lastSale'.value
          /\ \E i \in DOMAIN pendingSells : pendingSells[i].awaited = lastSale'.awaited]_vars

\* Two clicks on the sell button of one discovery have both been paid.
C24_Witness ==
    /\ lastSale # Null
    /\ lastSale.paidBefore
    /\ playerState.balance = 2 * estimateDiscovery(lastSale.awaited.objectId)

(***************************************************************************)
(* C25, as the claim states it: the discovery a sale removes and uploads   *)
(* is the one whose estimate it awaited.                                   *)
(***************************************************************************)
C25_AsClaimed == lastSale # Null => lastSale.sold = lastSale.awaited

(***************************************************************************)
(* C25, what the code does: the sale is credited with the estimate of the  *)
(* discovery shown at the click, and removes and uploads whatever the      *)
(* panel shows when the estimate arrives, null included.                   *)
(***************************************************************************)
C25_SellsWhatIsShown ==
    [][SaleCompletes =>
          /\ lastSale'.sold = currentDiscovery
          /\ playerState'.discoveries.uploaded = Append(Uploaded, currentDiscovery)
          /\ playerState'.discoveries.local = SelectSeq(Local, LAMBDA d : d # currentDiscovery)
          /\ currentDiscovery' = Null]_vars

\* A sale was credited with the estimate of one discovery and uploaded
\* another.
C25_Witness ==
    /\ lastSale # Null
    /\ lastSale.sold # Null
    /\ lastSale.sold # lastSale.awaited
    /\ Uploaded[Len(Uploaded)] = lastSale.sold

(***************************************************************************)
(* C26, as the claim states it: uploaded holds no null and no discovery    *)
(* twice, local and uploaded share no discovery, and what a sale uploads   *)
(* was local when the sale started.                                        *)
(***************************************************************************)
C26_AsClaimed ==
    /\ \A i \in DOMAIN Uploaded : Uploaded[i] # Null
    /\ \A i, j \in DOMAIN Uploaded : Uploaded[i] = Uploaded[j] => i = j
    /\ \A i \in DOMAIN Uploaded : ~includes(Local, Uploaded[i])
    /\ lastSale # Null => includes(lastSale.localAtClick, lastSale.sold)

(***************************************************************************)
(* C26, what the code does: local and uploaded share no discovery, local   *)
(* holds no null and no discovery twice, and uploaded only grows, by the   *)
(* entry each sale pushes.                                                 *)
(***************************************************************************)
C26_LocalAndUploaded ==
    /\ \A i \in DOMAIN Uploaded : ~includes(Local, Uploaded[i])
    /\ \A i \in DOMAIN Local : Local[i] # Null
    /\ \A i, j \in DOMAIN Local : Local[i] = Local[j] => i = j
    /\ lastSale # Null => Uploaded[Len(Uploaded)] = lastSale.sold

\* The list of uploaded discoveries ends with a null entry.
C26_Witness ==
    /\ Len(Uploaded) >= 2
    /\ Uploaded[Len(Uploaded)] = Null

(***************************************************************************)
(* C27, as the claim states it: with no estimate pending, the button on    *)
(* display shows the price of the discovery on display.                    *)
(***************************************************************************)
C27_AsClaimed ==
    (pendingLabels = <<>> /\ pendingSells = <<>> /\ sellDiscoveryButton.displayed)
        => sellDiscoveryButton.textContent
              = sellFor(estimateDiscovery(currentDiscovery.objectId))

(***************************************************************************)
(* C27, what the code does: each estimate that arrives for a setDiscovery  *)
(* call writes the price of the discovery it was requested for, so the     *)
(* button shows the price of the estimate that arrived last.               *)
(***************************************************************************)
C27_LastEstimateWins ==
    [][LabelCompletes =>
          \E i \in DOMAIN pendingLabels :
              /\ pendingLabels' = RemoveAt(pendingLabels, i)
              /\ sellDiscoveryButton'.textContent
                    = sellFor(estimateDiscovery(pendingLabels[i].discovery.objectId))
              /\ sellDiscoveryButton'.displayed = sellDiscoveryButton.displayed]_vars

\* With no estimate pending, the button on display shows the price of a
\* discovery that is not the one on display.
C27_Witness ==
    /\ pendingLabels = <<>>
    /\ pendingSells = <<>>
    /\ sellDiscoveryButton.displayed
    /\ currentDiscovery # Null
    /\ \E d \in SpaceDiscoveryData :
          /\ d # currentDiscovery
          /\ sellDiscoveryButton.textContent = sellFor(estimateDiscovery(d.objectId))

(***************************************************************************)
(* What the claims about the spaceship speak of, read off the last call.   *)
(***************************************************************************)
ShipUpdated == shipLast.op = "update"

ShipNotified(observable) ==
    \E i \in DOMAIN shipLast.notified : shipLast.notified[i] = observable

\* The ship as update found it once the fuel scoop had run, and its fuel.
AfterScoop == handleFuelScoop(shipLast.before, 1).ship

RemainingAtTest == getRemainingFuel(AfterScoop)

TanksWithinBounds ==
    \A i \in DOMAIN ship.fuelTanks :
        /\ 0 <= ship.fuelTanks[i].currentFuel
        /\ ship.fuelTanks[i].currentFuel <= ship.fuelTanks[i].maxFuel

\* C28: update never throws and never leaves a tank below zero.  It burns
\* the fuel the tick requires exactly when that is strictly less than the
\* remaining fuel; otherwise it burns nothing, leaves the warp drive
\* disabled after notifying an emergency stop, and sets the main engine
\* throttle to 0.
C28_UpdateBurnsWithinFuel ==
    ShipUpdated =>
        /\ ~shipLast.threw
        /\ \A i \in DOMAIN ship.fuelTanks : ship.fuelTanks[i].currentFuel >= 0
        /\ IF shipLast.arg.fuelToBurn < RemainingAtTest
           THEN /\ getRemainingFuel(ship) = RemainingAtTest - shipLast.arg.fuelToBurn
                /\ ship.mainEngineThrottle = shipLast.before.mainEngineThrottle
           ELSE /\ ship.fuelTanks = AfterScoop.fuelTanks
                /\ ~WarpDrive_isEnabled(ship.warpDrive)
                /\ ShipNotified("onWarpDriveDisabled(true)")
                /\ ship.mainEngineThrottle = 0

\* An update of a ship in warp at full throttle whose tick requires exactly
\* the fuel that remains: nothing is burned and the ship is stopped.
C28_Witness ==
    /\ ShipUpdated
    /\ WarpDrive_isEnabled(shipLast.before.warpDrive)
    /\ shipLast.before.mainEngineThrottle = FullThrottle
    /\ shipLast.arg.canEngage
    /\ shipLast.arg.fuelToBurn > 0
    /\ shipLast.arg.fuelToBurn = RemainingAtTest
    /\ getRemainingFuel(ship) = RemainingAtTest
    /\ ~WarpDrive_isEnabled(ship.warpDrive)
    /\ ship.mainEngineThrottle = 0

\* C29: every tank holds between 0 and its capacity.  burnFuel(a) with a at
\* most the remaining fuel lowers the remaining fuel by a and returns a;
\* with a above the remaining fuel it throws and leaves every tank as it
\* was.  refuel(a) raises the remaining fuel by the smaller of a and the
\* free capacity and returns that amount.
C29_FuelAccounting ==
    LET before == shipLast.before
        amount == shipLast.arg.amount
        free == getTotalFuelCapacity(before) - getRemainingFuel(before)
    IN  /\ TanksWithinBounds
        /\ shipLast.op = "burnFuel" =>
              IF amount <= getRemainingFuel(before)
              THEN /\ ~shipLast.threw
                   /\ getRemainingFuel(ship) = getRemainingFuel(before) - amount
                   /\ shipLast.result = [amount |-> amount]
              ELSE /\ shipLast.threw
                   /\ ship.fuelTanks = before.fuelTanks
        /\ shipLast.op = "refuel" =>
              /\ ~shipLast.threw
              /\ getRemainingFuel(ship) = getRemainingFuel(before) + Min(amount, free)
              /\ shipLast.result = [amount |-> Min(amount, free)]

\* A refuel with more than the free capacity, which fills both tanks.
C29_Witness ==
    /\ shipLast.op = "refuel"
    /\ shipLast.arg.amount >
          getTotalFuelCapacity(shipLast.before) - getRemainingFuel(shipLast.before)
    /\ \A i \in DOMAIN ship.fuelTanks :
          /\ shipLast.before.fuelTanks[i].currentFuel < ship.fuelTanks[i].currentFuel
          /\ ship.fuelTanks[i].currentFuel = ship.fuelTanks[i].maxFuel

\* The conditions of scooping, for a ship: it has a fuel scoop, its nearest
\* celestial body is a star or a gas planet within 1.7 bounding radii, and
\* its tanks are not full.
ScoopingConditions(this) ==
    /\ this.fuelScoop # Null
    /\ this.nearestCelestialBody # Null
    /\ this.nearestCelestialBody.type \in {"STAR", "GAS_PLANET"}
    /\ 10 * this.distanceToBody <= 17 * this.nearestCelestialBody.boundingRadius
    /\ getRemainingFuel(this) < getTotalFuelCapacity(this)

\* C30, as the claim states it: an update of a scooping ship for which a
\* condition of scooping no longer holds ends scooping and notifies
\* onFuelScoopEnd.
C30_AsClaimed ==
    (ShipUpdated /\ shipLast.before.isFuelScooping /\ ~ScoopingConditions(shipLast.before))
        => /\ ~ship.isFuelScooping
           /\ ShipNotified("onFuelScoopEnd")

\* C30, what the code does: the update ends scooping and notifies
\* onFuelScoopEnd when the nearest body is still a star or a gas planet;
\* when the nearest body is of another type the flag stays set and
\* nothing is notified.
C30_EndsScoopingNearStarOrGas ==
    (ShipUpdated /\ shipLast.before.isFuelScooping /\ ~ScoopingConditions(shipLast.before))
        => IF shipLast.before.nearestCelestialBody.type \in {"STAR", "GAS_PLANET"}
           THEN /\ ~ship.isFuelScooping
                /\ Head(shipLast.notified) = "onFuelScoopEnd"
           ELSE /\ ship.isFuelScooping
                /\ ~ShipNotified("onFuelScoopEnd")

\* An update of a scooping ship whose nearest body has become a telluric
\* planet: the flag is still set and onFuelScoopEnd was not notified.
C30_Witness ==
    /\ ShipUpdated
    /\ shipLast.before.isFuelScooping
    /\ shipLast.before.nearestCelestialBody.type = "TELLURIC_PLANET"
    /\ ship.isFuelScooping
    /\ ~ShipNotified("onFuelScoopEnd")

(***************************************************************************)
(* The warp drive and the landings of the ship.                            *)
(***************************************************************************)
ShipCalled == shipLast.op # "constructor"

\* How many times the last call notified onWarpDriveDisabled.
DisabledNotifications ==
    Cardinality({i \in DOMAIN shipLast.notified :
                    shipLast.notified[i] \in {"onWarpDriveDisabled(true)",
                                              "onWarpDriveDisabled(false)"}})

\* The warp drive was enabled, and so onWarpDriveEnabled was the last of
\* the warp drive notifications, when the last call began.
WasEnabled == shipLast.before.warpDrive.state = "ENABLED"

Indicator(condition) == IF condition THEN 1 ELSE 0

\* C31, as the claim states it: a call notifies onWarpDriveDisabled at most
\* once, and only when the warp drive was enabled when the call began.
C31_AsClaimed ==
    ShipCalled => DisabledNotifications <= Indicator(WasEnabled)

\* C31, what the code does: update notifies onWarpDriveDisabled once when
\* the drive was enabled and cannot be engaged, and once more whenever the
\* fuel of the tick is not strictly less than the remaining fuel, whatever
\* the drive; disableWarpDrive and emergencyStopWarpDrive notify once,
\* whatever the drive; toggleWarpDrive notifies once when the drive was
\* enabled; no other call notifies it.
C31_NotifiesWhateverTheDrive ==
    ShipCalled =>
        DisabledNotifications =
            CASE shipLast.op = "update" ->
                    Indicator(WasEnabled /\ ~shipLast.arg.canEngage)
                        + Indicator(shipLast.arg.fuelToBurn >= RemainingAtTest)
              [] shipLast.op \in {"disableWarpDrive", "emergencyStopWarpDrive"} -> 1
              [] shipLast.op = "toggleWarpDrive" -> Indicator(WasEnabled)
              [] OTHER -> 0

\* An update of a ship whose warp drive was disabled, with a tick that
\* needs all the fuel that remains: onWarpDriveDisabled is notified.
C31_Witness ==
    /\ shipLast.op = "update"
    /\ shipLast.before.warpDrive.state = "DISABLED"
    /\ shipLast.arg.fuelToBurn >= getRemainingFuel(shipLast.before)
    /\ ShipNotified("onWarpDriveDisabled(true)")

\* The last call was engagePlanetaryLanding and it threw, which it does
\* for 'Landing target is null' only.
LandingTargetIsNull == shipLast.op = "engagePlanetaryLanding" /\ shipLast.threw

\* C32, as the claim states it: when engagePlanetaryLanding throws, the ship
\* is as it was before the call and onPlanetaryLandingEngaged is not
\* notified.
C32_AsClaimed ==
    LandingTargetIsNull =>
        /\ ship = shipLast.before
        /\ ~ShipNotified("onPlanetaryLandingEngaged")

\* C32, what the code does: when engagePlanetaryLanding throws, the ship is
\* in state LANDING with no landing target, whatever its state was, its
\* other fields are as before, and nothing is notified.
C32_ThrowsInLanding ==
    LandingTargetIsNull =>
        /\ shipLast.arg = Null
        /\ shipLast.before.closestWalkableObject = Null
        /\ ship = [shipLast.before EXCEPT !.state = LANDING, !.landingTarget = Null]
        /\ shipLast.notified = <<>>

\* engagePlanetaryLanding(null) threw on a flying ship, which is now
\* LANDING with no landing target.
C32_Witness ==
    /\ LandingTargetIsNull
    /\ shipLast.before.state = FLYING
    /\ ship.state = LANDING
    /\ ship.landingTarget = Null

\* C33, as the claim states it: a ship that is FLYING or LANDED has no
\* landing target.
C33_AsClaimed ==
    ship.state \in {FLYING, LANDED} => ship.landingTarget = Null

\* C33, what the code does: a LANDED ship has no landing target, and
\* cancelLanding and spawnOnPad leave none; takeOff leaves the landing
\* target it found.
C33_TakeOffKeepsTarget ==
    /\ ship.state = LANDED => ship.landingTarget = Null
    /\ shipLast.op \in {"cancelLanding", "spawnOnPad"} => ship.landingTarget = Null
    /\ shipLast.op = "takeOff" =>
          /\ ship.state = FLYING
          /\ ship.landingTarget = shipLast.before.landingTarget

\* takeOff was called during a planetary landing: the ship is FLYING and
\* still has the landing target.
C33_Witness ==
    /\ shipLast.op = "takeOff"
    /\ shipLast.before.state = LANDING
    /\ ship.state = FLYING
    /\ ship.landingTarget # Null

\* C34, as the claim states it: the warp drive of a LANDED ship is not
\* enabled, and no update translates a LANDED ship by the warp speed.
C34_AsClaimed ==
    ship.state = LANDED =>
        /\ ~WarpDrive_isEnabled(ship.warpDrive)
        /\ shipLast.op = "update" => ~shipLast.result.translated

\* C34, what the code does: enableWarpDrive enables the drive and
\* toggleWarpDrive enables a drive that is not enabled, whatever the state
\* of the ship, which they leave as it is; update translates the ship by
\* the warp speed exactly when the drive was enabled and can be engaged,
\* whatever the state of the ship.
C34_WarpWhateverTheState ==
    /\ shipLast.op = "enableWarpDrive" =>
          /\ WarpDrive_isEnabled(ship.warpDrive)
          /\ ship.state = shipLast.before.state
    /\ shipLast.op = "toggleWarpDrive" =>
          /\ WarpDrive_isEnabled(ship.warpDrive) = ~WasEnabled
          /\ ship.state = shipLast.before.state
    /\ shipLast.op = "update" =>
          shipLast.result.translated = (WasEnabled /\ shipLast.arg.canEngage)

\* An update of a LANDED ship whose warp drive was enabled: the ship was
\* translated by the warp speed and is still LANDED.
C34_Witness ==
    /\ shipLast.op = "update"
    /\ shipLast.before.state = LANDED
    /\ WasEnabled
    /\ shipLast.result.translated
    /\ ship.state = LANDED


(***************************************************************************)
(* The runs of the Pages workflow.                                         *)
(***************************************************************************)
\* C35: at most one run of the group is in progress and at most one is
\* pending; a pending run is the latest run triggered, so that every run
\* triggered between the run in progress and the latest is cancelled
\* without having started; and a run in progress is in progress or ended
\* after every step, never cancelled.
C35_OneDeploymentAtATime ==
    [][/\ Cardinality(RunsWith("in_progress")') <= 1
       /\ Cardinality(RunsWith("pending")') <= 1
       /\ RunsWith("pending")' \subseteq {Len(runs')}
       /\ RunsWith("pending")' # {} => RunsWith("in_progress")' # {}
       /\ \A i \in RunsWith("in_progress") :
              runs'[i].status \in {"in_progress", "success", "failure"}
       /\ \A i \in RunsWith("pending") :
              /\ runs'[i].status \in {"pending", "in_progress", "cancelled"}
              /\ runs'[i].status = "cancelled" => Len(runs') > Len(runs)]_vars

\* A run is in progress, a run triggered after it was cancelled while
\* pending, and the latest run is pending.
C35_Witness ==
    \E i, j, k \in DOMAIN runs :
        /\ i < j
        /\ j < k
        /\ k = Len(runs)
        /\ runs[i].status = "in_progress"
        /\ runs[j].status = "cancelled"
        /\ runs[k].status = "pending"
====
